---- MODULE Spec2Model ----
(***************************************************************************)
(* The warehouse load paths of the ETL scripts: lib/bigquery.py            *)
(* (ensure_dataset_exists, load_table, merge_table), lib/source.py         *)
(* (run_sync) and the scripts that write to the warehouse on their own.    *)
(* The warehouse is a set of datasets and a map of target tables; a table   *)
(* holds a bag of rows.  A temporary table is named after a uuid, so each  *)
(* call has a temporary table of its own; one left behind by a finished    *)
(* call is never named again and is only counted.  Every warehouse request *)
(* can fail (network, auth), and a failed job may or may not have taken    *)
(* effect on the server.                                                   *)
(***************************************************************************)
EXTENDS Integers, FiniteSets, Sequences, TLC

\* ------------------------------------------------------------------ bounds
MaxKey == 3
MaxOrphans == 2
MaxCopies == 2

Keys == 1..MaxKey
Vals == {"a", "b"}
\* The script processes; the sequential specifications below run one of them.
Procs == {"A", "B"}

\* ------------------------------------------------------------------ rows
\* The declared columns of a source and its primary key.
Schema == <<"id", "val">>
PrimaryKey == "id"
Columns == {Schema[i] : i \in DOMAIN Schema}
Row == [id : Keys, val : Vals]

\* A list of row dicts whose primary keys are unique (the contract's input).
HasUniqueKeys(S) == \A r \in S : \A q \in S : r[PrimaryKey] = q[PrimaryKey] => r = q
RowLists == {S \in SUBSET Row : HasUniqueKeys(S)}

\* What fetch returns: raw records, the value nested as the API nests it.
RawRecord == [id : Keys, node : [name : Vals]]
RawLists == {S \in SUBSET RawRecord : \A r \in S : \A q \in S : r.id = q.id => r = q}
\* LinearIssuesSource.transform: one flat row per raw record.
Transform(raw) == {[id |-> x.id, val |-> x.node.name] : x \in raw}

\* ------------------------------------------------------------------ bags
NoRows == [r \in {} |-> 0]
Count(B, r) == IF r \in DOMAIN B THEN B[r] ELSE 0
Size(B, S) == LET RECURSIVE Sum(_)
                  Sum(X) == IF X = {} THEN 0
                            ELSE LET x == CHOOSE y \in X : TRUE
                                 IN B[x] + Sum(X \ {x})
              IN Sum(S)
KeysOf(B) == {r[PrimaryKey] : r \in DOMAIN B}
\* What a load job of the JSON rows writes.
RowsToBag(S) == [r \in S |-> 1]

NoTable == [exists |-> FALSE, rows |-> NoRows]
TableOf(B) == [exists |-> TRUE, rows |-> B]

\* ------------------------------------------------------------------ tables
DEFAULT_DATASET == "raw_data"
GitHubPRs == <<"github", "raw_pull_requests">>
\* run_sync passes no dataset_id: the source's table_id in the default dataset
Issues == <<DEFAULT_DATASET, "issues">>
\* HNCommentsSource.dataset_id and table_id, as the backfill scripts use them
HNComments == <<"hacker_news", "raw_comments">>
GitHubReviews == <<"github", "raw_pr_reviews">>
\* The class attributes of a source that name its table.
HNCommentsSource == [dataset_id |-> "hacker_news", table_id |-> "raw_comments"]
\* process_day and load_comments_to_bigquery: source.dataset_id, source.table_id
DeclaredTarget(source) == <<source.dataset_id, source.table_id>>
\* run_sync hands source.table_id to load_table / merge_table and no
\* dataset_id, so the table is looked up in the default dataset.
RunSyncTarget(source) == <<DEFAULT_DATASET, source.table_id>>
TableRefs == {GitHubPRs, GitHubReviews, Issues, HNComments, RunSyncTarget(HNCommentsSource)}

VARIABLES
    datasets,   \* the datasets that exist in the warehouse
    tables,     \* table reference -> [exists, rows]
    temp,       \* per process: the temporary table of its current call
    orphans,    \* temporary tables left behind by finished calls
    pc,         \* per process: where its current call stands
    call,       \* per process: the arguments of its current call
    exc,        \* per process: the exception in flight inside try/finally
    ops,        \* per process: the steps and warehouse requests of its current call
    faults,     \* per process: the requests of its current call that failed
    result,     \* per process: how its last call ended
    pre,        \* per process: the target tables as they were when the call started
    run,        \* which of two runs in a row is under way (0: not followed)
    first,      \* the rows the first of the two runs loaded
    env,        \* the environment variables that are set
    script,     \* per process: how far its script has come
    pool,       \* the worker pool of the parallel sentiment analysis
    page,       \* the dashboard page being rendered
    fetch       \* the fetch loop of a source that is under way

vars == <<datasets, tables, temp, orphans, pc, call, exc, ops, faults, result, pre, run, first,
          env, script, pool, page, fetch>>
rerun == <<run, first>>
\* what surrounds a call: the environment, the script, the pool, the dashboard,
\* the fetch loops
outside == <<env, script, pool, page, fetch>>
warehouse == <<datasets, tables>>

\* The credentials a sync reads from the environment: the source's API token
\* and the warehouse service-account key.
EnvVars == {"SOURCE_TOKEN", "GCP_SA_KEY"}
NoScript == [name |-> "none", status |-> <<>>, outcome |-> "none",
             parallel |-> FALSE, failed |-> FALSE]
NoPool == [state |-> "none"]
NoPage == [state |-> "none"]
NoFetch == [state |-> "none"]

NoCall == [kind |-> "none", ref |-> GitHubPRs, raw |-> {}, rows |-> {}, full |-> FALSE]
NoResult == [status |-> "none", err |-> "none"]

Init ==
    /\ datasets = {}
    /\ tables = [t \in TableRefs |-> NoTable]
    /\ temp = [p \in Procs |-> NoTable]
    /\ orphans = 0
    /\ pc = [p \in Procs |-> "idle"]
    /\ call = [p \in Procs |-> NoCall]
    /\ exc = [p \in Procs |-> "none"]
    /\ ops = [p \in Procs |-> <<>>]
    /\ faults = [p \in Procs |-> {}]
    /\ result = [p \in Procs |-> NoResult]
    /\ pre = [p \in Procs |-> tables]
    /\ run = 0
    /\ first = {}
    /\ env = EnvVars
    /\ script = [p \in Procs |-> NoScript]
    /\ pool = NoPool
    /\ page = NoPage
    /\ fetch = NoFetch

\* ------------------------------------------------------------------ control
Goto(p, label) == pc' = [pc EXCEPT ![p] = label]
Issue(p, requests) == ops' = [ops EXCEPT ![p] = ops[p] \o requests]
Fails(p, request) == faults' = [faults EXCEPT ![p] = faults[p] \cup {request}]
Return(p) ==
    /\ pc' = [pc EXCEPT ![p] = "done"]
    /\ result' = [result EXCEPT ![p] = [status |-> "returned", err |-> "none"]]
Raise(p, e) ==
    /\ pc' = [pc EXCEPT ![p] = "done"]
    /\ result' = [result EXCEPT ![p] = [status |-> "raised", err |-> e]]
Begin(p, kind, ref, raw, rows, full, label) ==
    /\ call' = [call EXCEPT ![p] =
                   [kind |-> kind, ref |-> ref, raw |-> raw, rows |-> rows, full |-> full]]
    /\ pc' = [pc EXCEPT ![p] = label]
    /\ pre' = [pre EXCEPT ![p] = tables]
    /\ UNCHANGED <<warehouse, temp, orphans, exc, ops, faults, result>>

\* scripts/sync_github.py: the stages of the script, each loading a table of
\* its own (the comments stage has the shape of the reviews stage).
GhStages == <<GitHubPRs, GitHubReviews>>
StageOf(p) == CHOOSE k \in DOMAIN GhStages : GhStages[k] = call[p].ref

\* (faulty variant: the script carries on after a stage that raised)
AfterStageContinues(p) ==
    LET k == StageOf(p)
        how == IF result[p].status = "returned" THEN "returned" ELSE "raised"
    IN [script[p] EXCEPT !.status[k] = how,
                         !.outcome = IF k = Len(GhStages) THEN "complete" ELSE "running"]
\* No stage is wrapped in try/except: an exception ends the script with a
\* traceback and a non-zero exit code; the script completes after its last stage.
AfterStage(p) ==
    LET k == StageOf(p)
        how == IF result[p].status = "returned" THEN "returned" ELSE "raised"
    IN [script[p] EXCEPT !.status[k] = how,
                         !.outcome = IF how = "raised" THEN "failed"
                                     ELSE IF k = Len(GhStages) THEN "complete"
                                     ELSE "running"]

\* scripts/backfill_hn_comments.py main(): the sequential loop lets the
\* exception of process_day end the script; the parallel branch catches it
\* per day and logs it.  `failed` remembers that a day did not load (an
\* exception, or row errors that process_day only logs).
AfterDay(p) ==
    IF result[p].status = "returned"
    THEN [script[p] EXCEPT !.failed = script[p].failed \/ faults[p] # {}]
    ELSE IF script[p].parallel
         THEN [script[p] EXCEPT !.failed = TRUE]
         ELSE [script[p] EXCEPT !.failed = TRUE, !.outcome = "failed"]

\* The Hacker News scripts run one after another: which writers have run.
AfterWriter(p) == [script[p] EXCEPT !.status = Append(@, call[p].kind)]

\* What the end of a call means to the script that made it.
AfterCall(p) ==
    IF script[p].outcome # "running" THEN script[p]
    ELSE IF script[p].name = "sync_github" THEN AfterStage(p)
    ELSE IF script[p].name = "backfill_hn_comments" THEN AfterDay(p)
    ELSE IF script[p].name = "hacker_news" THEN AfterWriter(p)
    ELSE script[p]

\* The caller is done with a finished call.  A temporary table the call left
\* behind stays in the warehouse: nothing names it again.
Exit(p) ==
    /\ pc[p] = "done"
    /\ temp[p].exists => orphans < MaxOrphans
    /\ orphans' = IF temp[p].exists THEN orphans + 1 ELSE orphans
    /\ temp' = [temp EXCEPT ![p] = NoTable]
    /\ pc' = [pc EXCEPT ![p] = "idle"]
    /\ call' = [call EXCEPT ![p] = NoCall]
    /\ ops' = [ops EXCEPT ![p] = <<>>]
    /\ faults' = [faults EXCEPT ![p] = {}]
    /\ exc' = [exc EXCEPT ![p] = "none"]
    /\ result' = [result EXCEPT ![p] = NoResult]
    /\ pre' = [pre EXCEPT ![p] = tables]
    \* two runs in a row: followed while the first one returned
    /\ run' = IF run = 1 /\ result[p].status = "returned" THEN 1 ELSE 0
    /\ first' = IF run = 1 /\ result[p].status = "returned" THEN first ELSE {}
    \* the process is over and so is its environment
    /\ env' = EnvVars
    /\ script' = [script EXCEPT ![p] = AfterCall(p)]
    /\ UNCHANGED <<warehouse, pool, page, fetch>>

\* ------------------------------------------------------------------ MERGE
\* merge_sql: ON T.pk = S.pk WHEN MATCHED THEN UPDATE SET every non-key column
\* WHEN NOT MATCHED THEN INSERT every column.
\* (faulty variant: WHEN MATCHED updates nothing)
UpdateColsNone == {}
UpdateCols == {c \in Columns : c # PrimaryKey}
Matches(t, S) == {s \in DOMAIN S : s[PrimaryKey] = t[PrimaryKey]}
\* The MERGE statement is rejected when a target row matches several source rows.
MergeAmbiguous(T, S) == \E t \in DOMAIN T : Size(S, Matches(t, S)) > 1
Updated(t, S) ==
    IF Matches(t, S) = {} THEN t
    ELSE LET s == CHOOSE m \in Matches(t, S) : TRUE
         IN [c \in Columns |-> IF c \in UpdateCols THEN s[c] ELSE t[c]]
\* (faulty variant: every source row is inserted, matched or not)
InsertedAll(T, S) == DOMAIN S
Inserted(T, S) == {s \in DOMAIN S : \A t \in DOMAIN T : t[PrimaryKey] # s[PrimaryKey]}
\* (faulty variant: the target is replaced by the staged rows)
MergeResultReplace(T, S) == S
MergeResult(T, S) ==
    LET out == {Updated(t, S) : t \in DOMAIN T} \cup Inserted(T, S)
    IN [x \in out |->
          Size(T, {t \in DOMAIN T : Updated(t, S) = x})
          + (IF x \in Inserted(T, S) THEN S[x] ELSE 0)]

\* ------------------------------------------------------------------ ensure_dataset_exists
\* get_dataset; on any exception create_dataset, whose own exception propagates
\* (creating a dataset that exists is a conflict).  Leads to `next` or raises.
EnsureDataset(p, d, next) ==
    \/ /\ d \in datasets
       /\ Issue(p, <<"get_dataset">>)
       /\ Goto(p, next)
       /\ UNCHANGED <<datasets, faults, result>>
    \/ /\ d \notin datasets
       /\ Issue(p, <<"get_dataset", "create_dataset">>)
       /\ datasets' = datasets \cup {d}
       /\ Goto(p, next)
       /\ UNCHANGED <<faults, result>>
    \/ /\ Issue(p, <<"get_dataset", "create_dataset">>)
       /\ Fails(p, "create_dataset")
       /\ Raise(p, "dataset_error")
       /\ UNCHANGED datasets

\* ------------------------------------------------------------------ load_table
LtEnsureDataset(p) ==
    /\ pc[p] = "lt_dataset"
    /\ EnsureDataset(p, call[p].ref[1], "lt_load")
    /\ UNCHANGED <<tables, temp, orphans, call, exc, pre, rerun, outside>>

\* load_table_from_json(rows, table_ref, WRITE_TRUNCATE) and job.result(): the
\* table is created if missing and its rows are replaced by the input.
Loaded(ref, rows) == [tables EXCEPT ![ref] = TableOf(RowsToBag(rows))]
LtLoad(p) ==
    /\ pc[p] = "lt_load"
    /\ Issue(p, <<"load">>)
    /\ \/ /\ tables' = Loaded(call[p].ref, call[p].rows)
          /\ Return(p)
          /\ UNCHANGED faults
       \/ /\ \E applied \in BOOLEAN :
                tables' = IF applied THEN Loaded(call[p].ref, call[p].rows) ELSE tables
          /\ Fails(p, "load")
          /\ Raise(p, "load_error")
    /\ UNCHANGED <<datasets, temp, orphans, call, exc, pre, rerun, outside>>

\* ------------------------------------------------------------------ merge_table
\* (faulty variant: no early return on an empty row list)
MtCheckRowsAlways(p) ==
    /\ pc[p] = "mt_entry"
    /\ Goto(p, "mt_dataset")
    /\ UNCHANGED <<warehouse, temp, orphans, call, exc, ops, faults, result, pre, rerun, outside>>

\* if not rows: return
MtCheckRows(p) ==
    /\ pc[p] = "mt_entry"
    /\ IF call[p].rows = {}
       THEN Return(p)
       ELSE /\ Goto(p, "mt_dataset")
            /\ UNCHANGED result
    /\ UNCHANGED <<warehouse, temp, orphans, call, exc, ops, faults, pre, rerun, outside>>

MtEnsureDataset(p) ==
    /\ pc[p] = "mt_dataset"
    /\ EnsureDataset(p, call[p].ref[1], "mt_get_table")
    /\ UNCHANGED <<tables, temp, orphans, call, exc, pre, rerun, outside>>

\* (faulty variant: a missing target is staged and merged like an existing one)
MtGetTableNoFallback(p) ==
    /\ pc[p] = "mt_get_table"
    /\ Issue(p, <<"get_table">>)
    /\ Goto(p, "mt_stage")
    /\ UNCHANGED <<warehouse, temp, orphans, call, exc, faults, result, pre, rerun, outside>>

\* client.get_table(table_ref): NotFound degrades to load_table (which ensures
\* the dataset again); any other exception propagates.
MtGetTable(p) ==
    /\ pc[p] = "mt_get_table"
    /\ Issue(p, <<"get_table">>)
    /\ \/ /\ tables[call[p].ref].exists
          /\ Goto(p, "mt_stage")
          /\ UNCHANGED <<faults, result>>
       \/ /\ ~tables[call[p].ref].exists
          /\ Goto(p, "lt_dataset")
          /\ UNCHANGED <<faults, result>>
       \/ /\ Fails(p, "get_table")
          /\ Raise(p, "get_table_error")
    /\ UNCHANGED <<warehouse, temp, orphans, call, exc, pre, rerun, outside>>

\* load_table_from_json(rows, temp_table_ref, WRITE_TRUNCATE) and job.result(),
\* outside the try block: a failure propagates at once.
Staged(p, rows) == [temp EXCEPT ![p] = TableOf(RowsToBag(rows))]
\* (faulty variant: the load job is not waited for, its failure goes unnoticed)
MtStageNoWait(p) ==
    /\ pc[p] = "mt_stage"
    /\ Issue(p, <<"load_temp">>)
    /\ \/ /\ temp' = Staged(p, call[p].rows)
          /\ UNCHANGED faults
       \/ /\ \E applied \in BOOLEAN :
                temp' = IF applied THEN Staged(p, call[p].rows) ELSE temp
          /\ Fails(p, "load_temp")
    /\ Goto(p, "mt_merge")
    /\ UNCHANGED <<datasets, tables, orphans, call, exc, result, pre, rerun, outside>>
MtStage(p) ==
    /\ pc[p] = "mt_stage"
    /\ Issue(p, <<"load_temp">>)
    /\ \/ /\ temp' = Staged(p, call[p].rows)
          /\ Goto(p, "mt_merge")
          /\ UNCHANGED <<faults, result>>
       \/ /\ \E applied \in BOOLEAN :
                temp' = IF applied THEN Staged(p, call[p].rows) ELSE temp
          /\ Fails(p, "load_temp")
          /\ Raise(p, "stage_error")
    /\ UNCHANGED <<datasets, tables, orphans, call, exc, pre, rerun, outside>>

\* client.query(merge_sql) and query_job.result(), inside try: an exception is
\* held while the finally block runs.
CanMerge(ref, p) ==
    /\ tables[ref].exists
    /\ temp[p].exists
    /\ ~MergeAmbiguous(tables[ref].rows, temp[p].rows)
Merged(ref, p) ==
    [tables EXCEPT ![ref] = TableOf(MergeResult(tables[ref].rows, temp[p].rows))]
MtMerge(p) ==
    /\ pc[p] = "mt_merge"
    /\ Issue(p, <<"merge">>)
    /\ \/ /\ CanMerge(call[p].ref, p)
          /\ tables' = Merged(call[p].ref, p)
          /\ UNCHANGED <<exc, faults>>
       \/ /\ \E applied \in BOOLEAN :
                tables' = IF applied /\ CanMerge(call[p].ref, p)
                          THEN Merged(call[p].ref, p) ELSE tables
          /\ Fails(p, "merge")
          /\ exc' = [exc EXCEPT ![p] = "merge_error"]
    /\ Goto(p, "mt_cleanup")
    /\ UNCHANGED <<datasets, temp, orphans, call, result, pre, rerun, outside>>

\* finally: try delete_table(temp_table_ref) except Exception: log a warning;
\* then the held exception, if any, propagates.
\* (faulty variant: the held exception is swallowed)
FinishSwallow(p) == Return(p)
Finish(p) == IF exc[p] = "none" THEN Return(p) ELSE Raise(p, exc[p])
\* (faulty variant: a failed delete_table is raised instead of logged)
MtCleanupRaises(p) ==
    /\ pc[p] = "mt_cleanup"
    /\ Issue(p, <<"delete_temp">>)
    /\ \/ /\ temp[p].exists
          /\ temp' = [temp EXCEPT ![p] = NoTable]
          /\ Finish(p)
          /\ UNCHANGED faults
       \/ /\ Fails(p, "delete_temp")
          /\ Raise(p, "delete_error")
          /\ UNCHANGED temp
    /\ UNCHANGED <<datasets, tables, orphans, call, exc, pre, rerun, outside>>
MtCleanup(p) ==
    /\ pc[p] = "mt_cleanup"
    /\ Issue(p, <<"delete_temp">>)
    /\ \/ /\ temp[p].exists
          /\ temp' = [temp EXCEPT ![p] = NoTable]
          /\ UNCHANGED faults
       \/ /\ Fails(p, "delete_temp")
          /\ UNCHANGED temp
    /\ Finish(p)
    /\ UNCHANGED <<datasets, tables, orphans, call, exc, pre, rerun, outside>>

\* ------------------------------------------------------------------ callers
\* scripts/sync_github.py: bq.merge_table(client, table_id, rows, schema, pk, dataset_id)
CallMergeTable(p) ==
    /\ pc[p] = "idle"
    /\ run = 0
    /\ \E rows \in RowLists : Begin(p, "merge_table", GitHubPRs, {}, rows, FALSE, "mt_entry")
    /\ UNCHANGED <<rerun, outside>>

\* bq.load_table(client, table_id, rows, schema) with the default WRITE_TRUNCATE
CallLoadTable(p) ==
    /\ pc[p] = "idle"
    /\ run = 0
    /\ \E rows \in RowLists : Begin(p, "load_table", GitHubPRs, {}, rows, FALSE, "lt_dataset")
    /\ UNCHANGED <<rerun, outside>>

\* ------------------------------------------------------------------ run_sync
\* raw_data = source.fetch(); if not raw_data: return.  fetch reads the source's
\* token first (get_api_key, get_token) and raises ValueError when it is not set.
RsFetch(p) ==
    /\ pc[p] = "rs_fetch"
    /\ IF "SOURCE_TOKEN" \notin env
       THEN /\ Raise(p, "config_error")
            /\ UNCHANGED <<ops, faults>>
       ELSE /\ Issue(p, <<"fetch">>)
            /\ \/ /\ call[p].raw = {}
                  /\ Return(p)
                  /\ UNCHANGED faults
               \/ /\ call[p].raw # {}
                  /\ Goto(p, "rs_transform")
                  /\ UNCHANGED <<faults, result>>
               \/ /\ Fails(p, "fetch")
                  /\ Raise(p, "fetch_error")
    /\ UNCHANGED <<warehouse, temp, orphans, call, exc, pre, rerun, outside>>

\* rows = source.transform(raw_data); client = bq.get_client(), which raises
\* ValueError when GCP_SA_KEY is not set (and fails on a key it cannot decode).
RsTransform(p) ==
    /\ pc[p] = "rs_transform"
    /\ Issue(p, <<"transform">>)
    /\ \/ /\ Fails(p, "transform")
          /\ Raise(p, "transform_error")
          /\ UNCHANGED call
       \/ /\ call' = [call EXCEPT ![p].rows = Transform(call[p].raw)]
          /\ IF "GCP_SA_KEY" \notin env
             THEN /\ Raise(p, "config_error")
                  /\ UNCHANGED faults
             ELSE \/ /\ Goto(p, "rs_load")
                     /\ UNCHANGED <<faults, result>>
                  \/ /\ Fails(p, "get_client")
                     /\ Raise(p, "get_client_error")
    /\ UNCHANGED <<warehouse, temp, orphans, exc, pre, rerun, outside>>

\* (faulty variant: the flag is ignored, the rows are always merged)
RsLoadAlwaysMerge(p) ==
    /\ pc[p] = "rs_load"
    /\ Issue(p, <<"merge_table">>)
    /\ Goto(p, "mt_entry")
    /\ UNCHANGED <<warehouse, temp, orphans, call, exc, faults, result, pre, rerun, outside>>
\* if full_refresh: bq.load_table(...) else: bq.merge_table(...)
RsLoad(p) ==
    /\ pc[p] = "rs_load"
    /\ Issue(p, <<IF call[p].full THEN "load_table" ELSE "merge_table">>)
    /\ Goto(p, IF call[p].full THEN "lt_dataset" ELSE "mt_entry")
    /\ UNCHANGED <<warehouse, temp, orphans, call, exc, faults, result, pre, rerun, outside>>

\* run_sync(source) and run_sync(source, full_refresh=True), in an environment
\* that may lack a credential
CallRunSync(p) ==
    /\ pc[p] = "idle"
    /\ run = 0
    /\ \E raw \in RawLists, full \in BOOLEAN :
          Begin(p, "run_sync", Issues, raw, {}, full, "rs_fetch")
    /\ env' \in SUBSET EnvVars
    /\ UNCHANGED <<rerun, script, pool, page, fetch>>

\* The first of two incremental runs in a row ...
CallFirstRun(p) ==
    /\ pc[p] = "idle"
    /\ run = 0
    /\ \E raw \in RawLists \ {{}} :
          /\ Begin(p, "run_sync", Issues, raw, {}, FALSE, "rs_fetch")
          /\ first' = Transform(raw)
    /\ run' = 1
    /\ UNCHANGED outside

\* ... and the second, which fetches the same records again.
CallSecondRun(p) ==
    /\ pc[p] = "idle"
    /\ run = 1
    /\ \E raw \in RawLists :
          /\ {x.id : x \in raw} = {r[PrimaryKey] : r \in first}
          /\ Begin(p, "run_sync", Issues, raw, {}, FALSE, "rs_fetch")
    /\ run' = 2
    /\ UNCHANGED <<first, outside>>

\* ------------------------------------------------------------------ backfill_hn_sentiment
\* load_comments_to_bigquery: if not rows: return; client = bq.get_client()
LcCheckRows(p) ==
    /\ pc[p] = "lc_entry"
    /\ \/ /\ call[p].rows = {}
          /\ Return(p)
          /\ UNCHANGED faults
       \/ /\ call[p].rows # {}
          /\ Goto(p, "lc_stage")
          /\ UNCHANGED <<faults, result>>
       \/ /\ call[p].rows # {}
          /\ Fails(p, "get_client")
          /\ Raise(p, "get_client_error")
    /\ UNCHANGED <<warehouse, temp, orphans, call, exc, ops, pre, rerun, outside>>

\* load_table_from_json(rows, temp_table, WRITE_TRUNCATE).result()
LcStage(p) ==
    /\ pc[p] = "lc_stage"
    /\ Issue(p, <<"load_temp">>)
    /\ \/ /\ temp' = Staged(p, call[p].rows)
          /\ Goto(p, "lc_merge")
          /\ UNCHANGED <<faults, result>>
       \/ /\ \E applied \in BOOLEAN :
                temp' = IF applied THEN Staged(p, call[p].rows) ELSE temp
          /\ Fails(p, "load_temp")
          /\ Raise(p, "stage_error")
    /\ UNCHANGED <<datasets, tables, orphans, call, exc, pre, rerun, outside>>

\* client.query(merge_query).result(): not inside any try, the exception
\* leaves the function at once.
LcMerge(p) ==
    /\ pc[p] = "lc_merge"
    /\ Issue(p, <<"merge">>)
    /\ \/ /\ CanMerge(call[p].ref, p)
          /\ tables' = Merged(call[p].ref, p)
          /\ Goto(p, "lc_delete")
          /\ UNCHANGED <<faults, result>>
       \/ /\ \E applied \in BOOLEAN :
                tables' = IF applied /\ CanMerge(call[p].ref, p)
                          THEN Merged(call[p].ref, p) ELSE tables
          /\ Fails(p, "merge")
          /\ Raise(p, "merge_error")
    /\ UNCHANGED <<datasets, temp, orphans, call, exc, pre, rerun, outside>>

\* client.delete_table(temp_table): its exception is not caught
LcDelete(p) ==
    /\ pc[p] = "lc_delete"
    /\ Issue(p, <<"delete_temp">>)
    /\ \/ /\ temp[p].exists
          /\ temp' = [temp EXCEPT ![p] = NoTable]
          /\ Return(p)
          /\ UNCHANGED faults
       \/ /\ Fails(p, "delete_temp")
          /\ Raise(p, "delete_error")
          /\ UNCHANGED temp
    /\ UNCHANGED <<datasets, tables, orphans, call, exc, pre, rerun, outside>>

\* main(): rows fetched for the date range, scored, then loaded
CallLoadComments(p) ==
    /\ pc[p] = "idle"
    /\ run = 0
    /\ \E rows \in RowLists : Begin(p, "load_comments", HNComments, {}, rows, FALSE, "lc_entry")
    /\ UNCHANGED <<rerun, outside>>

\* ------------------------------------------------------------------ backfill_hn_comments
\* process_day: comments = fetch_comments_for_date(...); if not comments: return 0;
\* the sentiment fields are filled in (its errors are caught row by row)
PdFetch(p) ==
    /\ pc[p] = "pd_fetch"
    /\ \/ /\ call[p].rows = {}
          /\ Return(p)
          /\ UNCHANGED faults
       \/ /\ call[p].rows # {}
          /\ Goto(p, "pd_dataset")
          /\ UNCHANGED <<faults, result>>
       \/ /\ Fails(p, "fetch")
          /\ Raise(p, "fetch_error")
    /\ UNCHANGED <<warehouse, temp, orphans, call, exc, ops, pre, rerun, outside>>

\* try: client.get_dataset(dataset_ref) except Exception: client.create_dataset(dataset_ref)
PdEnsureDataset(p) ==
    /\ pc[p] = "pd_dataset"
    /\ EnsureDataset(p, call[p].ref[1], "pd_table")
    /\ UNCHANGED <<tables, temp, orphans, call, exc, pre, rerun, outside>>

\* try: client.get_table(table_ref) except Exception: client.create_table(table)
PdEnsureTable(p) ==
    /\ pc[p] = "pd_table"
    /\ \/ /\ tables[call[p].ref].exists
          /\ Issue(p, <<"get_table">>)
          /\ Goto(p, "pd_insert")
          /\ UNCHANGED <<tables, faults, result>>
       \/ /\ ~tables[call[p].ref].exists
          /\ Issue(p, <<"get_table", "create_table">>)
          /\ tables' = [tables EXCEPT ![call[p].ref] = TableOf(NoRows)]
          /\ Goto(p, "pd_insert")
          /\ UNCHANGED <<faults, result>>
       \/ /\ Issue(p, <<"get_table", "create_table">>)
          /\ Fails(p, "create_table")
          /\ Raise(p, "create_table_error")
          /\ UNCHANGED tables
    /\ UNCHANGED <<datasets, temp, orphans, call, exc, pre, rerun, outside>>

\* errors = client.insert_rows_json(table_ref, comments): a streaming insert,
\* the rows are appended to whatever the table holds; row errors are logged.
Appended(ref, rows) ==
    [tables EXCEPT ![ref] =
        TableOf([r \in DOMAIN tables[ref].rows \cup rows |->
                    Count(tables[ref].rows, r) + (IF r \in rows THEN 1 ELSE 0)])]
CanAppend(ref, rows) ==
    /\ tables[ref].exists
    \* the model follows at most MaxCopies rows under one key
    /\ \A r \in rows : Size(tables[ref].rows, Matches(r, tables[ref].rows)) < MaxCopies
PdInsert(p) ==
    /\ pc[p] = "pd_insert"
    /\ Issue(p, <<"insert_rows">>)
    /\ \/ /\ CanAppend(call[p].ref, call[p].rows)
          /\ tables' = Appended(call[p].ref, call[p].rows)
          /\ Return(p)
          /\ UNCHANGED faults
       \/ /\ Fails(p, "insert_rows")
          /\ Return(p)
          /\ UNCHANGED tables
       \/ /\ \E applied \in BOOLEAN :
                tables' = IF applied /\ CanAppend(call[p].ref, call[p].rows)
                          THEN Appended(call[p].ref, call[p].rows) ELSE tables
          /\ Fails(p, "insert_rows")
          /\ Raise(p, "insert_error")
    /\ UNCHANGED <<datasets, temp, orphans, call, exc, pre, rerun, outside>>

\* main(): process_day(target_date, top_stories) for each date
CallProcessDay(p) ==
    /\ pc[p] = "idle"
    /\ run = 0
    /\ \E rows \in RowLists : Begin(p, "process_day", HNComments, {}, rows, FALSE, "pd_fetch")
    /\ UNCHANGED <<rerun, outside>>

\* ------------------------------------------------------------------ sync_github
\* client = bq.get_client() is the first statement: it raises ValueError when
\* GCP_SA_KEY is not set, before any stage.
GhStart(p) ==
    /\ pc[p] = "idle"
    /\ script[p].name = "none"
    /\ env' \in SUBSET EnvVars
    /\ script' = [script EXCEPT ![p] =
                     [name |-> "sync_github",
                      status |-> [k \in DOMAIN GhStages |-> "pending"],
                      outcome |-> IF "GCP_SA_KEY" \in env' THEN "running" ELSE "failed",
                      parallel |-> FALSE, failed |-> FALSE]]
    /\ UNCHANGED <<warehouse, temp, orphans, pc, call, exc, ops, faults, result, pre, rerun,
                   pool, page, fetch>>

\* (faulty variant: a stage starts without waiting for the one before it)
StageReadyEarly(p, k) ==
    /\ script[p].outcome = "running"
    /\ script[p].status[k] = "pending"
\* The statements of the script run one after the other.
StageReady(p, k) ==
    /\ pc[p] = "idle"
    /\ script[p].outcome = "running"
    /\ script[p].status[k] = "pending"
    /\ IF k = 1 THEN TRUE ELSE script[p].status[k - 1] \in {"returned", "raised"}

\* Step k: source.fetch(), source.transform(), bq.merge_table(..., dataset_id)
GhBeginStage(p) ==
    /\ script[p].name = "sync_github"
    /\ \E k \in DOMAIN GhStages :
          /\ StageReady(p, k)
          /\ \E raw \in RawLists : Begin(p, "stage", GhStages[k], raw, {}, FALSE, "gh_fetch")
          /\ script' = [script EXCEPT ![p].status[k] = "running"]
    /\ UNCHANGED <<rerun, env, pool, page, fetch>>

\* (faulty variant: a failed list request is logged like a failed detail request)
GhFetchSwallowsAll(p) ==
    /\ pc[p] = "gh_fetch"
    /\ Issue(p, <<"fetch">>)
    /\ \/ UNCHANGED faults
       \/ Fails(p, "fetch")
    /\ Goto(p, "gh_transform")
    /\ UNCHANGED <<warehouse, temp, orphans, call, exc, result, pre, rerun, outside>>
\* GitHubPullRequestsSource.fetch, GitHubPRReviewsSource.fetch: get_headers()
\* raises ValueError when the token is not set; every list request ends in
\* raise_for_status(); the request for the details of one pull request is
\* inside try/except, its failure is logged and the record is kept.
GhFetch(p) ==
    /\ pc[p] = "gh_fetch"
    /\ IF "SOURCE_TOKEN" \notin env
       THEN /\ Raise(p, "config_error")
            /\ UNCHANGED <<ops, faults>>
       ELSE /\ Issue(p, <<"fetch">>)
            /\ \/ /\ Goto(p, "gh_transform")
                  /\ UNCHANGED <<faults, result>>
               \/ /\ Fails(p, "fetch")
                  /\ Raise(p, "fetch_error")
               \/ /\ call[p].ref = GitHubPRs
                  /\ call[p].raw # {}
                  /\ Fails(p, "detail")
                  /\ Goto(p, "gh_transform")
                  /\ UNCHANGED result
    /\ UNCHANGED <<warehouse, temp, orphans, call, exc, pre, rerun, outside>>

\* rows = source.transform(raw), then bq.merge_table(client, table_id, rows, ...)
GhTransform(p) ==
    /\ pc[p] = "gh_transform"
    /\ Issue(p, <<"transform", "merge_table">>)
    /\ call' = [call EXCEPT ![p].rows = Transform(call[p].raw)]
    /\ Goto(p, "mt_entry")
    /\ UNCHANGED <<warehouse, temp, orphans, exc, faults, result, pre, rerun, outside>>

\* ------------------------------------------------------------------ backfill_hn_comments main
\* main(): dates = [...]; if args.parallel == 1: the sequential loop, else the pool
BcStart(p) ==
    /\ pc[p] = "idle"
    /\ script[p].name = "none"
    /\ \E parallel \in BOOLEAN :
          script' = [script EXCEPT ![p] =
                        [name |-> "backfill_hn_comments", status |-> <<>>,
                         outcome |-> "running", parallel |-> parallel, failed |-> FALSE]]
    /\ UNCHANGED <<warehouse, temp, orphans, pc, call, exc, ops, faults, result, pre, rerun,
                   env, pool, page, fetch>>

\* process_day(target_date, args.top_stories) for the next date (the days of
\* the pool are followed one at a time)
BcProcessDay(p) ==
    /\ script[p].name = "backfill_hn_comments"
    /\ script[p].outcome = "running"
    /\ CallProcessDay(p)

\* No date is left: logger.info("Backfill complete! ..."), the dbt run, exit code 0
BcFinish(p) ==
    /\ pc[p] = "idle"
    /\ script[p].name = "backfill_hn_comments"
    /\ script[p].outcome = "running"
    /\ script' = [script EXCEPT ![p].outcome = "complete"]
    /\ UNCHANGED <<warehouse, temp, orphans, pc, call, exc, ops, faults, result, pre, rerun,
                   env, pool, page, fetch>>

\* ------------------------------------------------------------------ backfill_hn_sentiment
\* Everything but the pool and the dashboard page, and everything but the
\* fetch loop.
etl == <<datasets, tables, temp, orphans, pc, call, exc, ops, faults, result, pre, run, first,
         env, script, fetch>>

beside == <<datasets, tables, temp, orphans, pc, call, exc, ops, faults, result, pre, run,
             first, env, script, pool, page>>

MaxRows == 3
MaxWorkers == 2

\* A comment text as a list of pieces: markup, entities, blanks and words.
TokenLen(t) == CASE t = "<i>" -> 3
                 [] t = "&gt;" -> 4
                 [] t = " " -> 1
                 [] t = "ok" -> 2
                 [] t = "wonderful!" -> 10
                 [] t = "terrible!!" -> 10
IsWord(t) == t \in {"ok", "wonderful!", "terrible!!"}
Texts == {<<"<i>", "ok", "&gt;", "ok", "<i>">>,
          <<"wonderful!">>,
          <<"<i>", "terrible!!", " ", " ", "ok">>,
          <<"ok", "&gt;", "ok", " ", "ok", "<i>", "ok">>}
\* clean_html: tags and entities become a blank, runs of blanks collapse to
\* one, blanks at both ends are stripped.
RECURSIVE Collapse(_)
Collapse(s) ==
    IF Len(s) < 2 THEN s
    ELSE IF s[1] = " " /\ s[2] = " " THEN Collapse(Tail(s))
    ELSE <<s[1]>> \o Collapse(Tail(s))
RECURSIVE StripLeft(_)
StripLeft(s) == IF s # <<>> /\ s[1] = " " THEN StripLeft(Tail(s)) ELSE s
RECURSIVE StripRight(_)
StripRight(s) ==
    IF s # <<>> /\ s[Len(s)] = " " THEN StripRight(SubSeq(s, 1, Len(s) - 1)) ELSE s
clean_html(text) ==
    IF text = <<>> THEN <<>>
    ELSE LET blanked == [i \in DOMAIN text |-> IF IsWord(text[i]) THEN text[i] ELSE " "]
         IN StripRight(StripLeft(Collapse(blanked)))
RECURSIVE TextLen(_)
TextLen(s) == IF s = <<>> THEN 0 ELSE TokenLen(s[1]) + TextLen(Tail(s))

\* The answers of the inference API; a score is in units of 0.00001.
Responses == {"ok", "no_success", "http_error"}
Inference(text) ==
    IF \E i \in DOMAIN text : text[i] = "wonderful!" THEN [label |-> "POSITIVE", score |-> 99987]
    ELSE IF \E i \in DOMAIN text : text[i] = "terrible!!" THEN [label |-> "NEGATIVE", score |-> 90004]
    ELSE [label |-> "NEGATIVE", score |-> 20006]
\* round(x, 4), in units of 0.0001
Round4(x) == IF x >= 0 THEN (x + 5) \div 10 ELSE 0 - ((5 - x) \div 10)

ErrorSentiment ==
    [sentiment_score |-> 0, sentiment_label |-> "ERROR", sentiment_category |-> "neutral"]
NeutralSentiment ==
    [sentiment_score |-> 0, sentiment_label |-> "NEUTRAL", sentiment_category |-> "neutral"]
\* analyze_sentiment_single(text, ...) when the API answers with response
analyze_sentiment_single(text, response) ==
    IF text = <<>> \/ TextLen(text) < 10 THEN NeutralSentiment
    ELSE IF response = "ok"
    THEN LET r == Inference(text)
             sentiment_score == IF r.label = "POSITIVE" THEN r.score ELSE 0 - r.score
             category == IF sentiment_score > 25000 THEN "positive"
                         ELSE IF sentiment_score < 0 - 25000 THEN "negative"
                         ELSE "neutral"
         IN [sentiment_score |-> Round4(sentiment_score), sentiment_label |-> r.label,
             sentiment_category |-> category]
    ELSE ErrorSentiment

None == [none |-> TRUE]
InputRows == UNION {[1..n -> Texts] : n \in 0..MaxRows}

\* analyze_sentiment_parallel(rows, ...): the texts are cleaned, results is
\* [None] * len(rows), and one task per row is submitted to the executor.
AspStart ==
    /\ pool.state = "none"
    /\ \E texts \in InputRows :
          pool' = [state |-> "collecting",
                   input |-> [i \in DOMAIN texts |-> [id |-> i, text |-> texts[i]]],
                   rows |-> [i \in DOMAIN texts |->
                                [id |-> i, text |-> texts[i],
                                 clean_text |-> clean_html(texts[i])]],
                   results |-> [i \in DOMAIN texts |-> None],
                   task |-> [i \in DOMAIN texts |-> "queued"],
                   answer |-> [i \in DOMAIN texts |-> "none"],
                   future |-> [i \in DOMAIN texts |-> None],
                   first |-> 0,
                   completed |-> 0]
    /\ UNCHANGED <<etl, page>>

Running == {i \in DOMAIN pool.task : pool.task[i] = "running"}
Queued == {i \in DOMAIN pool.task : pool.task[i] = "queued"}
\* A free worker of the executor takes the task at the head of its queue.
WorkerTake(i) ==
    /\ pool.state = "collecting"
    /\ i \in Queued
    /\ \A j \in Queued : i <= j
    /\ Cardinality(Running) < MaxWorkers
    /\ pool' = [pool EXCEPT !.task[i] = "running"]
    /\ UNCHANGED <<etl, page>>

\* The task of row i ends: analyze_sentiment_single catches every Exception,
\* so the future holds a sentiment dict.
WorkerFinish(i) ==
    /\ pool.state = "collecting"
    /\ i \in Running
    /\ \E response \in Responses :
          pool' = [pool EXCEPT
                      !.task[i] = "finished",
                      !.answer[i] = response,
                      !.future[i] = analyze_sentiment_single(pool.rows[i].clean_text, response)]
    /\ UNCHANGED <<etl, page>>

\* The slot of results a completed future is written to: a mistaken collector
\* that fills the slots in completion order.
SlotByCompletion(i) == pool.completed + 1
\* idx = future_to_idx[future]
Slot(i) == i

\* for future in as_completed(future_to_idx): results[idx] = future.result()
AspCollect(i) ==
    /\ pool.state = "collecting"
    /\ i \in DOMAIN pool.task
    /\ pool.task[i] = "finished"
    /\ pool' = [pool EXCEPT
                   !.task[i] = "collected",
                   !.results[Slot(i)] = pool.future[i],
                   !.first = IF pool.completed = 0 THEN i ELSE @,
                   !.completed = @ + 1]
    /\ UNCHANGED <<etl, page>>

\* Every future was collected and the executor has shut down: the results are
\* merged into the rows by position, _clean_text is deleted, rows is returned.
Merge(row, sentiment) ==
    [id |-> row.id, text |-> row.text,
     sentiment_score |-> sentiment.sentiment_score,
     sentiment_label |-> sentiment.sentiment_label,
     sentiment_category |-> sentiment.sentiment_category]
AspMerge ==
    /\ pool.state = "collecting"
    /\ \A i \in DOMAIN pool.task : pool.task[i] = "collected"
    /\ IF \E i \in DOMAIN pool.results : pool.results[i] = None
       THEN pool' = [pool EXCEPT !.state = "raised"]
       ELSE pool' = [pool EXCEPT
                        !.state = "returned",
                        !.rows = [i \in DOMAIN pool.rows |->
                                     Merge(pool.rows[i], pool.results[i])]]
    /\ UNCHANGED <<etl, page>>

\* ------------------------------------------------------------------ dashboard
\* The values DEPLOYMENT_MODE can have in the environment of the dashboard.
Modes == {"unset", "local", "public", "Public"}
\* os.environ.get("DEPLOYMENT_MODE", "local")
DEPLOYMENT_MODE(v) == IF v = "unset" THEN "local" ELSE v
IS_PUBLIC(v) == DEPLOYMENT_MODE(v) = "public"

SUMMARY_PAGE == "Summary"
PUBLIC_PAGES == <<"Oura Wellness", "Oura Investigation", "Hacker News", "HN Sentiment",
                  "Google Trends", "FDA Food Recalls", "Iowa Liquor Sales",
                  "FDA Food Events", "Stock Prices">>
PRIVATE_PAGES == <<"Linear Issues", "GitHub PRs">>
\* A navigation that lists the private pages whatever the mode.
nav_configAll(v) ==
    <<[group |-> "Overview", pages |-> <<SUMMARY_PAGE>>],
      [group |-> "Work", pages |-> PRIVATE_PAGES],
      [group |-> "Public Data", pages |-> PUBLIC_PAGES]>>
\* app.py: the navigation for the deployment mode
nav_config(v) ==
    IF IS_PUBLIC(v)
    THEN <<[group |-> "Overview", pages |-> <<SUMMARY_PAGE>>],
           [group |-> "Public Data", pages |-> PUBLIC_PAGES]>>
    ELSE <<[group |-> "Overview", pages |-> <<SUMMARY_PAGE>>],
           [group |-> "Work", pages |-> PRIVATE_PAGES],
           [group |-> "Public Data", pages |-> PUBLIC_PAGES]>>
NavPages(nav) == UNION {{nav[g].pages[i] : i \in DOMAIN nav[g].pages} : g \in DOMAIN nav}

\* Summary.py: the sections of the page, top to bottom, each with the loaders
\* its try block calls; the first two are guarded by "if not IS_PUBLIC".
SummarySections ==
    <<[title |-> "Linear", private |-> TRUE, loaders |-> <<"load_issues">>],
      [title |-> "GitHub", private |-> TRUE, loaders |-> <<"load_pull_requests">>],
      [title |-> "Oura", private |-> FALSE, loaders |-> <<"load_oura_daily">>],
      [title |-> "Hacker News", private |-> FALSE, loaders |-> <<"load_hn_weekly_stats">>],
      [title |-> "HN Sentiment", private |-> FALSE, loaders |-> <<"load_hn_keyword_sentiment">>],
      [title |-> "Google Trends", private |-> FALSE, loaders |-> <<"load_keyword_trends">>],
      [title |-> "FDA Food Recalls", private |-> FALSE, loaders |-> <<"load_fda_recalls_raw">>],
      [title |-> "Iowa Liquor Sales", private |-> FALSE, loaders |-> <<"load_iowa_liquor_monthly">>],
      [title |-> "FDA Food Events", private |-> FALSE, loaders |-> <<"load_fda_events_monthly">>],
      [title |-> "Stock Prices", private |-> FALSE,
       loaders |-> <<"load_stock_prices", "load_sector_performance">>]>>

\* pages/1_Linear_Issues.py: df = load_issues() outside any try, then the
\* sections, all drawn from df.
LinearIssuesPage ==
    [loaders |-> <<"load_issues">>, caught |-> FALSE,
     sections |-> <<[title |-> "Overview", needs |-> {"load_issues"}],
                    [title |-> "How do Exchange Engineers Spend Their Time?",
                     needs |-> {"load_issues"}],
                    [title |-> "Points Completed by Assignee", needs |-> {"load_issues"}],
                    [title |-> "Issues", needs |-> {"load_issues"}]>>]
\* pages/2_GitHub_PRs.py: both loads in one try whose handler ends in
\* st.stop(), then the sections; some draw on the pull requests alone.
GitHubPRsPage ==
    [loaders |-> <<"load_pull_requests", "load_reviewer_activity">>, caught |-> TRUE,
     sections |-> <<[title |-> "PR Activity",
                     needs |-> {"load_pull_requests", "load_reviewer_activity"}],
                    [title |-> "Code Volume", needs |-> {"load_pull_requests"}],
                    [title |-> "Trends", needs |-> {"load_pull_requests"}],
                    [title |-> "Breakdown",
                     needs |-> {"load_pull_requests", "load_reviewer_activity"}],
                    [title |-> "View PR Data", needs |-> {"load_pull_requests"}]>>]
PageScript(name) == IF name = "Linear Issues" THEN LinearIssuesPage ELSE GitHubPRsPage
\* The pages whose scripts are followed here.
Scripted == {SUMMARY_PAGE, "Linear Issues", "GitHub PRs"}

\* The loaders a try block calls when its k-th one raises (k = 0: none does).
Called(loaders, k) == {loaders[i] : i \in 1..(IF k = 0 THEN Len(loaders) ELSE k)}
Raised(loaders, k) == IF k = 0 THEN {} ELSE {loaders[k]}

\* streamlit run app.py: the flag is read and the navigation is built
AppRun ==
    /\ page.state = "none"
    /\ \E mode \in Modes :
          page' = [state |-> "nav", mode |-> mode, nav |-> nav_config(mode),
                   name |-> "none", pos |-> 0, calls |-> {}, failed |-> {}, shown |-> {}]
    /\ UNCHANGED <<etl, pool>>

\* pg.run(): the visitor picks a page of the navigation
OpenPage ==
    /\ page.state = "nav"
    /\ \E name \in NavPages(page.nav) \cap Scripted :
          page' = [page EXCEPT !.state = "rendering", !.name = name, !.pos = 1]
    /\ UNCHANGED <<etl, pool>>

\* Summary.py, one section: the header, then try: load and show the metrics,
\* except Exception: st.warning(...)
SummarySection ==
    /\ page.state = "rendering"
    /\ page.name = SUMMARY_PAGE
    /\ page.pos \in DOMAIN SummarySections
    /\ LET s == SummarySections[page.pos] IN
          IF s.private /\ IS_PUBLIC(page.mode)
          THEN page' = [page EXCEPT !.pos = @ + 1]
          ELSE \E k \in 0..Len(s.loaders) :
                  page' = [page EXCEPT
                              !.pos = @ + 1,
                              !.calls = @ \cup Called(s.loaders, k),
                              !.failed = @ \cup Raised(s.loaders, k),
                              !.shown = @ \cup {<<"header", s.title>>,
                                                IF k = 0 THEN <<"metrics", s.title>>
                                                ELSE <<"warning", s.title>>}]
    /\ UNCHANGED <<etl, pool>>

\* The load at the top of a page script.  GitHub PRs: except -> st.error,
\* st.info, st.stop().  Linear Issues: nothing catches, the exception ends
\* the script run.
PageLoad ==
    /\ page.state = "rendering"
    /\ page.name # SUMMARY_PAGE
    /\ page.pos = 1
    /\ LET script_ == PageScript(page.name) IN
       \E k \in 0..Len(script_.loaders) :
          page' = [page EXCEPT
                      !.calls = @ \cup Called(script_.loaders, k),
                      !.failed = @ \cup Raised(script_.loaders, k),
                      !.pos = IF k = 0 THEN 2 ELSE 1,
                      !.state = IF k = 0 THEN "rendering"
                                ELSE IF script_.caught THEN "stopped" ELSE "crashed",
                      !.shown = IF k # 0 /\ script_.caught
                                THEN @ \cup {<<"error", page.name>>, <<"info", page.name>>}
                                ELSE @]
    /\ UNCHANGED <<etl, pool>>

\* The next section of a page script, drawn from the loaded dataframes
PageSection ==
    /\ page.state = "rendering"
    /\ page.name # SUMMARY_PAGE
    /\ page.pos - 1 \in DOMAIN PageScript(page.name).sections
    /\ page' = [page EXCEPT
                   !.pos = @ + 1,
                   !.shown = @ \cup {<<"section", PageScript(page.name).sections[page.pos - 1].title>>}]
    /\ UNCHANGED <<etl, pool>>

\* The script reached its last line
PageEnd ==
    /\ page.state = "rendering"
    /\ IF page.name = SUMMARY_PAGE THEN page.pos = Len(SummarySections) + 1
       ELSE page.pos = Len(PageScript(page.name).sections) + 2
    /\ page' = [page EXCEPT !.state = "done"]
    /\ UNCHANGED <<etl, pool>>

\* ------------------------------------------------------------------ pages/3_Oura_Wellness.py
\* Rows of oura.fct_oura_daily: the day (a day number), the steps (a float
\* after the conversion, NaN where null) and the temperature deviation in
\* hundredths of a degree (NaN where null).
NaN == [nan |-> TRUE, v |-> 0]
Float(n) == [nan |-> FALSE, v |-> n]
OuraRows ==
    {[day |-> 1, steps |-> Float(0), temperature_deviation |-> Float(0 - 51)],
     [day |-> 10, steps |-> Float(7499), temperature_deviation |-> Float(0 - 50)],
     [day |-> 20, steps |-> Float(7500), temperature_deviation |-> Float(0 - 49)],
     [day |-> 25, steps |-> Float(9999), temperature_deviation |-> Float(0)],
     [day |-> 28, steps |-> Float(10000), temperature_deviation |-> Float(1)],
     [day |-> 30, steps |-> Float(10001), temperature_deviation |-> Float(50)],
     [day |-> 31, steps |-> NaN, temperature_deviation |-> Float(51)],
     [day |-> 70, steps |-> Float(7501), temperature_deviation |-> NaN]}
OuraData == SUBSET OuraRows \ {{}}

\* A comparison with NaN is False.
Ge(x, n) == ~x.nan /\ x.v >= n
Gt(x, n) == ~x.nan /\ x.v > n

\* (faulty variant: the thresholds are exclusive)
steps_colorExclusive(x) ==
    IF Gt(x, 10000) THEN "10k+" ELSE IF Gt(x, 7500) THEN "7.5k+" ELSE "<7.5k"
\* lambda x: "10k+" if x >= 10000 else ("7.5k+" if x >= 7500 else "<7.5k")
steps_color(x) ==
    IF Ge(x, 10000) THEN "10k+" ELSE IF Ge(x, 7500) THEN "7.5k+" ELSE "<7.5k"
\* lambda x: "elevated" if x > 0.5 else ("warm" if x > 0 else ("cool" if x > -0.5 else "low"))
temp_color(x) ==
    IF Gt(x, 50) THEN "elevated"
    ELSE IF Gt(x, 0) THEN "warm"
    ELSE IF Gt(x, 0 - 50) THEN "cool"
    ELSE "low"
\* scale=alt.Scale(domain=[...]) of the two charts
StepsDomain == <<"10k+", "7.5k+", "<7.5k">>
TempDomain == <<"elevated", "warm", "cool", "low">>

Min(S) == CHOOSE x \in S : \A y \in S : x <= y
Max(S) == CHOOSE x \in S : \A y \in S : x >= y
\* (faulty variant: the window is not clamped to the first day)
default_startUnclamped(df) == Max({r.day : r \in df}) - 30
\* default_start = max(min_date, max_date - timedelta(days=30))
default_start(df) ==
    LET min_date == Min({r.day : r \in df})
        max_date == Max({r.day : r \in df})
    IN IF min_date >= max_date - 30 THEN min_date ELSE max_date - 30
\* filtered[(filtered["day"] >= start_date) & (filtered["day"] <= end_date)]
Filtered(df, date_range) == {r \in df : r.day >= date_range[1] /\ r.day <= date_range[2]}

\* Passwords are strings of letters and blanks; strip() as in clean_html.
Strip(s) == StripRight(StripLeft(s))
Configured == {<<>>, <<"s">>, <<" ", "s", " ">>, <<" ">>}
Typed == {<<>>, <<"s">>, <<"s", " ">>, <<"x">>}
\* (faulty variant: every submission is accepted)
PasswordMatchesAny(password, configured) == TRUE
\* password.strip() == OURA_PAGE_PASSWORD.strip()
PasswordMatches(password, configured) == Strip(password) = Strip(configured)
\* DEPLOYMENT_MODE != "public" or not OURA_PAGE_PASSWORD
NoGate(mode, configured) == DEPLOYMENT_MODE(mode) # "public" \/ configured = <<>>

\* A browser session opens the page: nothing is in st.session_state yet.
OuraOpen ==
    /\ page.state = "none"
    /\ \E mode \in {"unset", "public"}, configured \in Configured, df \in OuraData :
          page' = [state |-> "opened", name |-> "Oura Wellness", mode |-> mode,
                   password |-> configured, table |-> df,
                   initialised |-> FALSE, oura_authenticated |-> FALSE,
                   submit |-> FALSE, typed |-> <<>>,
                   loaded |-> FALSE, date_range |-> <<0, 0>>, filtered |-> {},
                   steps_chart |-> {}, temp_chart |-> {}]
    /\ UNCHANGED <<etl, pool>>

\* The page script below the gate: load_oura_daily(), the default date range,
\* the filter, and the two charts with their colour categories.
Rendered(pg) ==
    LET df == pg.table
        date_range == <<default_start(df), Max({r.day : r \in df})>>
        filtered == Filtered(df, date_range)
        temp_data == {r \in filtered : r.temperature_deviation # NaN}
    IN [pg EXCEPT !.state = "shown", !.loaded = TRUE,
                  !.date_range = date_range, !.filtered = filtered,
                  !.steps_chart = {[day |-> r.day, steps |-> r.steps,
                                    steps_color |-> steps_color(r.steps)] : r \in filtered},
                  !.temp_chart = {[day |-> r.day,
                                   temperature_deviation |-> r.temperature_deviation,
                                   temp_color |-> temp_color(r.temperature_deviation)] :
                                  r \in temp_data}]
\* The password form is shown and st.stop() ends the run: nothing below it runs.
Gated(pg) ==
    [pg EXCEPT !.state = "form", !.filtered = {}, !.steps_chart = {}, !.temp_chart = {}]

\* One run of the page script: check_password(), then st.stop() or the page.
\* submit is True in the run a form submission triggers.
RunScript(pg, submit, password) ==
    LET seen == [pg EXCEPT !.submit = submit, !.typed = password] IN
    IF NoGate(pg.mode, pg.password) THEN Rendered(seen)
    ELSE LET session == [seen EXCEPT !.initialised = TRUE] IN
         IF session.oura_authenticated THEN Rendered(session)
         ELSE IF submit /\ PasswordMatches(password, pg.password)
              \* the flag is set and st.rerun() runs the script again
              THEN Rendered([session EXCEPT !.oura_authenticated = TRUE])
              ELSE Gated(session)

\* The page is opened or rerun (a widget changed, the browser reloaded).
OuraRerun ==
    /\ page.state \in {"opened", "form", "shown"}
    /\ page.name = "Oura Wellness"
    /\ page' = RunScript(page, FALSE, page.typed)
    /\ UNCHANGED <<etl, pool>>

\* The visitor types a password into the form and presses Submit.
OuraSubmit ==
    /\ page.state = "form"
    /\ page.name = "Oura Wellness"
    /\ \E password \in Typed : page' = RunScript(page, TRUE, password)
    /\ UNCHANGED <<etl, pool>>

\* ------------------------------------------------------------------ sources/linear.py fetch_paginated
MaxPages == 3
\* What the server holds: the number of nodes on each of its pages.  The
\* nodes are numbered in the order the server lists them; the cursor that
\* ends page i is i, and None is 0.
PageSizes == UNION {[1..n -> 0..2] : n \in 1..MaxPages}
RECURSIVE NodesBefore(_, _)
NodesBefore(sizes, i) == IF i = 0 THEN 0 ELSE sizes[i] + NodesBefore(sizes, i - 1)
\* data["data"][root_field] of the answer to a request with "after": cursor
ServerPage(sizes, cursor) ==
    LET i == cursor + 1
        from == NodesBefore(sizes, i - 1)
    IN [nodes |-> [k \in 1..sizes[i] |-> from + k],
        pageInfo |-> [hasNextPage |-> i < Len(sizes), endCursor |-> i]]

\* (faulty variant: the loop ends after the first page)
HasNextPageIgnored(answer) == FALSE
\* result["pageInfo"]["hasNextPage"]
HasNextPage(answer) == answer.pageInfo.hasNextPage

\* fetch_paginated(query, root_field): api_key = get_api_key();
\* all_nodes = [], cursor = None, page = 1
LpStart ==
    /\ fetch.state = "none"
    /\ \E sizes \in PageSizes :
          fetch' = IF "SOURCE_TOKEN" \notin env
                   THEN [state |-> "raised", kind |-> "linear", sizes |-> sizes, cursor |-> 0,
                         page |-> 1, all_nodes |-> <<>>, requests |-> <<>>, returned |-> <<>>]
                   ELSE [state |-> "running", kind |-> "linear", sizes |-> sizes, cursor |-> 0,
                         page |-> 1, all_nodes |-> <<>>, requests |-> <<>>, returned |-> <<>>]
    /\ UNCHANGED beside

\* One turn of the while loop: the request with "after": cursor;
\* raise_for_status() and the "errors" payload raise; the nodes are added;
\* the loop ends on hasNextPage false, else the cursor moves to endCursor.
LpRequest ==
    /\ fetch.state = "running"
    /\ fetch.kind = "linear"
    /\ \E answer \in {"ok", "http_error", "errors"} :
          LET sent == Append(fetch.requests, fetch.cursor) IN
          IF answer # "ok"
          THEN fetch' = [fetch EXCEPT !.state = "raised", !.requests = sent]
          ELSE LET got == ServerPage(fetch.sizes, fetch.cursor)
                   all_nodes == fetch.all_nodes \o got.nodes
               IN IF ~HasNextPage(got)
                  THEN fetch' = [fetch EXCEPT !.state = "returned", !.requests = sent,
                                              !.all_nodes = all_nodes, !.returned = all_nodes]
                  ELSE fetch' = [fetch EXCEPT !.requests = sent, !.all_nodes = all_nodes,
                                              !.cursor = got.pageInfo.endCursor,
                                              !.page = @ + 1]
    /\ UNCHANGED beside

\* ---------------------------------------------------------------------
\* sources/github.py: GitHubPullRequestsSource.fetch
\* ---------------------------------------------------------------------
\* REPOS, by repo_name
REPOS == <<"ddx-data-pipeline", "snowflake-queries">>
\* "per_page" of the list request (100 in the source)
per_page == 2
MaxPRs == 3
\* updated_at of a pull request: before, at and after the cutoff.
\* since_date (the fixed date of a full sync, or now - lookback_days) is
\* the middle date.
Dates == 0..2
SinceDates == {1}
\* What a repository holds: updated_at of its pull requests, in the order
\* the list endpoint ("sort": "updated", "direction": "desc") returns
\* them.  A pull request's number is its place in this list.
RepoLists == UNION {[1..n -> Dates] : n \in 0..MaxPRs}
\* response.json() of the list request with "page": pg
ListPage(held, pg) ==
    LET from == (pg - 1) * per_page
        n == IF Len(held) - from >= per_page THEN per_page
             ELSE IF Len(held) > from THEN Len(held) - from ELSE 0
    IN [k \in 1..n |-> [number |-> from + k, updated_at |-> held[from + k]]]
\* (faulty variant: a pull request updated at the cutoff counts as old)
OlderOrEqual(pr, since_date) == pr.updated_at <= since_date
\* if updated_at < since_date
Older(pr, since_date) == pr.updated_at < since_date
\* for pr in prs: the place of the first pull request older than the cutoff,
\* Len(prs) + 1 when there is none
FirstOld(prs, since_date) ==
    IF \E k \in 1..Len(prs) : Older(prs[k], since_date)
    THEN Min({k \in 1..Len(prs) : Older(prs[k], since_date)})
    ELSE Len(prs) + 1

\* fetch(): since_date, all_prs = [], headers = get_headers(); the first
\* repository of REPOS with page = 1 and reached_cutoff = False
PrFetchStart ==
    /\ fetch.state = "none"
    /\ \E held \in [1..Len(REPOS) -> RepoLists], since_date \in SinceDates :
          fetch' = [state |-> IF "SOURCE_TOKEN" \notin env THEN "raised" ELSE "running",
                    kind |-> "github", held |-> held, since_date |-> since_date,
                    repo |-> 1, page |-> 1, all_prs |-> <<>>, requests |-> <<>>]
    /\ UNCHANGED beside

\* One turn of "while not reached_cutoff": the list request for the page
\* (raise_for_status() raises); an empty page ends the repository; the pull
\* requests before the first old one are added, each after its detail
\* request, whose failure is logged and leaves the fields unset; an old
\* pull request ends the repository, else page += 1.  After the last
\* repository fetch() returns all_prs.
PrFetchRequest ==
    /\ fetch.state = "running"
    /\ fetch.kind = "github"
    /\ \E answer \in {"ok", "http_error"} :
          LET sent == Append(fetch.requests, <<fetch.repo, fetch.page>>) IN
          IF answer # "ok"
          THEN fetch' = [fetch EXCEPT !.state = "raised", !.requests = sent]
          ELSE LET prs == ListPage(fetch.held[fetch.repo], fetch.page)
                   cut == FirstOld(prs, fetch.since_date)
                   reached_cutoff == cut <= Len(prs)
               IN \E failed \in SUBSET (1..(cut - 1)) :
                     LET added == [k \in 1..(cut - 1) |->
                                      [_repo |-> REPOS[fetch.repo], number |-> prs[k].number,
                                       updated_at |-> prs[k].updated_at,
                                       detailed |-> k \notin failed]]
                         all_prs == fetch.all_prs \o added
                     IN IF prs # <<>> /\ ~reached_cutoff
                        THEN fetch' = [fetch EXCEPT !.requests = sent, !.all_prs = all_prs,
                                                    !.page = @ + 1]
                        ELSE IF fetch.repo < Len(REPOS)
                        THEN fetch' = [fetch EXCEPT !.requests = sent, !.all_prs = all_prs,
                                                    !.repo = @ + 1, !.page = 1]
                        ELSE fetch' = [fetch EXCEPT !.state = "returned", !.requests = sent,
                                                    !.all_prs = all_prs]
    /\ UNCHANGED beside

\* ---------------------------------------------------------------------
\* sources/hacker_news.py: HNCommentsSource.transform and
\* analyze_sentiment_batch
\* ---------------------------------------------------------------------
\* batch_size of analyze_sentiment_batch (50 in the source)
batch_size == 2
\* row.get("text", ""): a comment text, an empty one included (a NULL text
\* is cleaned to "" as well)
CommentTexts == Texts \cup {<<>>}
\* The answers of the inference API to one request: a scored label, a body
\* without success or result, an HTTP or network failure, a body whose
\* result cannot be read
BatchResponses == {"ok", "no_success", "http_error", "malformed"}
UnknownSentiment ==
    [sentiment_score |-> 0, sentiment_label |-> "UNKNOWN", sentiment_category |-> "neutral"]
\* row["sentiment_score"] = None, ... when the credentials are not set
NullSentiment ==
    [sentiment_score |-> None, sentiment_label |-> None, sentiment_category |-> None]
\* A row whose sentiment keys were never assigned
Unset == [unset |-> TRUE]
\* if not text or len(text) < 10
IsShort(text) == text = <<>> \/ TextLen(text) < 10
\* The body of "for text in batch" for one text: what is appended to results
\* when the API answers the request with response
BatchSentiment(text, response) ==
    IF IsShort(text) THEN NeutralSentiment
    ELSE IF response = "ok"
    THEN LET r == Inference(text)
             sentiment_score == IF r.label = "POSITIVE" THEN r.score ELSE 0 - r.score
             category == IF sentiment_score > 25000 THEN "positive"
                         ELSE IF sentiment_score < 0 - 25000 THEN "negative"
                         ELSE "neutral"
         IN [sentiment_score |-> Round4(sentiment_score), sentiment_label |-> r.label,
             sentiment_category |-> category]
    ELSE IF response = "no_success" THEN UnknownSentiment
    ELSE ErrorSentiment
\* (faulty variant: a short text is skipped without a result)
BatchResultsSkipShort(batch, answers) ==
    LET all == [k \in 1..Len(batch) |-> [text |-> batch[k],
                                         sentiment |-> BatchSentiment(batch[k], answers[k])]]
        long == SelectSeq(all, LAMBDA x : ~IsShort(x.text))
    IN [k \in 1..Len(long) |-> long[k].sentiment]
\* for text in batch: ... results.append(...)
BatchResults(batch, answers) ==
    [k \in 1..Len(batch) |-> BatchSentiment(batch[k], answers[k])]
\* for row, sentiment in zip(raw_data, sentiments): the three keys are set
ZipMerge(raw_data, sentiments) ==
    [k \in 1..Len(raw_data) |->
        IF k <= Len(sentiments) THEN [raw_data[k] EXCEPT !.sentiment = sentiments[k]]
        ELSE raw_data[k]]
\* The texts of the rows transform() is given
RawComments == UNION {[1..n -> CommentTexts] : n \in 0..MaxRows}

\* transform(raw_data): without the Cloudflare credentials the three keys
\* are set to None and raw_data is returned; else the texts are cleaned and
\* analyze_sentiment_batch starts with results = []
TransformStart ==
    /\ fetch.state = "none"
    /\ \E raw \in RawComments, credentials \in BOOLEAN :
          LET raw_data == [k \in 1..Len(raw) |->
                              [id |-> k, text |-> raw[k], sentiment |-> Unset]]
          IN fetch' = [state |-> IF credentials THEN "running" ELSE "returned",
                       kind |-> "transform",
                       credentials |-> credentials,
                       input |-> raw_data,
                       raw_data |-> IF credentials THEN raw_data
                                    ELSE [k \in 1..Len(raw) |->
                                             [raw_data[k] EXCEPT !.sentiment = NullSentiment]],
                       cleaned_texts |-> [k \in 1..Len(raw) |-> clean_html(raw[k])],
                       i |-> 0,
                       answers |-> <<>>,
                       results |-> <<>>]
    /\ UNCHANGED beside

\* One turn of "for i in range(0, len(texts), batch_size)": the batch
\* texts[i:i + batch_size], one request per text that is not short
TransformBatch ==
    /\ fetch.state = "running"
    /\ fetch.kind = "transform"
    /\ fetch.i < Len(fetch.cleaned_texts)
    /\ LET last == IF fetch.i + batch_size < Len(fetch.cleaned_texts)
                   THEN fetch.i + batch_size ELSE Len(fetch.cleaned_texts)
           batch == SubSeq(fetch.cleaned_texts, fetch.i + 1, last)
       IN \E answers \in [1..Len(batch) -> BatchResponses] :
             fetch' = [fetch EXCEPT !.i = @ + batch_size,
                                    !.answers = @ \o answers,
                                    !.results = @ \o BatchResults(batch, answers)]
    /\ UNCHANGED beside

\* analyze_sentiment_batch returns results; transform merges them into the
\* rows by position and returns raw_data
TransformReturn ==
    /\ fetch.state = "running"
    /\ fetch.kind = "transform"
    /\ fetch.i >= Len(fetch.cleaned_texts)
    /\ fetch' = [fetch EXCEPT !.state = "returned",
                              !.raw_data = ZipMerge(fetch.raw_data, fetch.results)]
    /\ UNCHANGED beside

Step(p) ==
    \/ CallMergeTable(p)
    \/ CallLoadTable(p)
    \/ MtCheckRows(p)
    \/ MtEnsureDataset(p)
    \/ MtGetTable(p)
    \/ MtStage(p)
    \/ MtMerge(p)
    \/ MtCleanup(p)
    \/ LtEnsureDataset(p)
    \/ LtLoad(p)
    \/ Exit(p)

\* One script at a time: the sync scripts run as independent sequential processes.
Next == Step("A")
Spec == Init /\ [][Next]_vars

\* A sync script that goes through run_sync, run after run.
SyncStep(p) ==
    \/ CallRunSync(p)
    \/ CallFirstRun(p)
    \/ CallSecondRun(p)
    \/ RsFetch(p)
    \/ RsTransform(p)
    \/ RsLoad(p)
    \/ MtCheckRows(p)
    \/ MtEnsureDataset(p)
    \/ MtGetTable(p)
    \/ MtStage(p)
    \/ MtMerge(p)
    \/ MtCleanup(p)
    \/ LtEnsureDataset(p)
    \/ LtLoad(p)
    \/ Exit(p)
NextSync == SyncStep("A")
SpecSync == Init /\ [][NextSync]_vars

\* The two Hacker News backfill scripts, run after run.
BackfillStep(p) ==
    \/ CallProcessDay(p)
    \/ CallLoadComments(p)
    \/ PdFetch(p)
    \/ PdEnsureDataset(p)
    \/ PdEnsureTable(p)
    \/ PdInsert(p)
    \/ LcCheckRows(p)
    \/ LcStage(p)
    \/ LcMerge(p)
    \/ LcDelete(p)
    \/ Exit(p)
NextBackfill == BackfillStep("A")
SpecBackfill == Init /\ [][NextBackfill]_vars

\* sync_github.py, run once on a warehouse that earlier runs may have filled.
SeedRows == {[id |-> 1, val |-> "a"]}
InitScript ==
    /\ \E seeded \in SUBSET {GitHubPRs, GitHubReviews} :
          /\ datasets = {t[1] : t \in seeded}
          /\ tables = [t \in TableRefs |->
                          IF t \in seeded THEN TableOf(RowsToBag(SeedRows)) ELSE NoTable]
          /\ pre = [p \in Procs |-> tables]
    /\ temp = [p \in Procs |-> NoTable]
    /\ orphans = 0
    /\ pc = [p \in Procs |-> "idle"]
    /\ call = [p \in Procs |-> NoCall]
    /\ exc = [p \in Procs |-> "none"]
    /\ ops = [p \in Procs |-> <<>>]
    /\ faults = [p \in Procs |-> {}]
    /\ result = [p \in Procs |-> NoResult]
    /\ run = 0
    /\ first = {}
    /\ env = EnvVars
    /\ script = [p \in Procs |-> NoScript]
    /\ pool = NoPool
    /\ page = NoPage
    /\ fetch = NoFetch
ScriptStep(p) ==
    \/ GhStart(p)
    \/ GhBeginStage(p)
    \/ GhFetch(p)
    \/ GhTransform(p)
    \/ MtCheckRows(p)
    \/ MtEnsureDataset(p)
    \/ MtGetTable(p)
    \/ MtStage(p)
    \/ MtMerge(p)
    \/ MtCleanup(p)
    \/ LtEnsureDataset(p)
    \/ LtLoad(p)
    \/ Exit(p)
NextScript == ScriptStep("A")
SpecScript == InitScript /\ [][NextScript]_vars

\* backfill_hn_comments.py, one run of main().
DaysStep(p) ==
    \/ BcStart(p)
    \/ BcProcessDay(p)
    \/ BcFinish(p)
    \/ PdFetch(p)
    \/ PdEnsureDataset(p)
    \/ PdEnsureTable(p)
    \/ PdInsert(p)
    \/ Exit(p)
NextDays == DaysStep("A")
SpecDays == Init /\ [][NextDays]_vars

\* The writers of the Hacker News comments: the regular sync and the two
\* backfill scripts, run one after the other in any order, the scheduled sync
\* up to twice and each backfill once.  What they fetch is the comments of one
\* story: one comment, with one text or another, or none.
HnStart(p) ==
    /\ pc[p] = "idle"
    /\ script[p].name = "none"
    /\ script' = [script EXCEPT ![p] =
                     [name |-> "hacker_news", status |-> <<>>, outcome |-> "running",
                      parallel |-> FALSE, failed |-> FALSE]]
    /\ UNCHANGED <<warehouse, temp, orphans, pc, call, exc, ops, faults, result, pre, rerun,
                   env, pool, page, fetch>>
Runs(p, kind) == {i \in DOMAIN script[p].status : script[p].status[i] = kind}
HnNext(p, kind, times) ==
    /\ pc[p] = "idle"
    /\ script[p].name = "hacker_news"
    /\ Cardinality(Runs(p, kind)) < times
CommentsFetched == {S \in RawLists : \A x \in S : x.id = 1}
\* sync_hacker_news.py: run_sync(HNCommentsSource(...))
HnSync(p) ==
    /\ HnNext(p, "run_sync", 2)
    /\ \E raw \in CommentsFetched :
          Begin(p, "run_sync", RunSyncTarget(HNCommentsSource), raw, {}, FALSE, "rs_fetch")
    /\ UNCHANGED <<rerun, outside>>
\* backfill_hn_comments.py: process_day(target_date, ...), which writes to
\* source.dataset_id, source.table_id
HnBackfillComments(p) ==
    /\ HnNext(p, "process_day", 1)
    /\ \E raw \in CommentsFetched :
          Begin(p, "process_day", DeclaredTarget(HNCommentsSource), {}, Transform(raw),
                FALSE, "pd_fetch")
    /\ UNCHANGED <<rerun, outside>>
\* backfill_hn_sentiment.py: load_comments_to_bigquery(rows), which merges
\* into source.dataset_id, source.table_id
HnBackfillSentiment(p) ==
    /\ HnNext(p, "load_comments", 1)
    /\ \E raw \in CommentsFetched :
          Begin(p, "load_comments", DeclaredTarget(HNCommentsSource), {}, Transform(raw),
                FALSE, "lc_entry")
    /\ UNCHANGED <<rerun, outside>>
CommentsStep(p) ==
    \/ HnStart(p)
    \/ HnSync(p)
    \/ HnBackfillComments(p)
    \/ HnBackfillSentiment(p)
    \/ RsFetch(p)
    \/ RsTransform(p)
    \/ RsLoad(p)
    \/ MtCheckRows(p)
    \/ MtEnsureDataset(p)
    \/ MtGetTable(p)
    \/ MtStage(p)
    \/ MtMerge(p)
    \/ MtCleanup(p)
    \/ LtEnsureDataset(p)
    \/ LtLoad(p)
    \/ PdFetch(p)
    \/ PdEnsureDataset(p)
    \/ PdEnsureTable(p)
    \/ PdInsert(p)
    \/ LcCheckRows(p)
    \/ LcStage(p)
    \/ LcMerge(p)
    \/ LcDelete(p)
    \/ Exit(p)
NextComments == CommentsStep("A")
SpecComments == Init /\ [][NextComments]_vars

\* backfill_hn_sentiment.py: one call of analyze_sentiment_parallel().
NextSentiment ==
    \/ AspStart
    \/ \E i \in 1..MaxRows : WorkerTake(i) \/ WorkerFinish(i) \/ AspCollect(i)
    \/ AspMerge
SpecSentiment == Init /\ [][NextSentiment]_vars

\* The dashboard: one run of app.py and of the page the visitor opens.
NextDashboard ==
    \/ AppRun
    \/ OpenPage
    \/ SummarySection
    \/ PageLoad
    \/ PageSection
    \/ PageEnd
SpecDashboard == Init /\ [][NextDashboard]_vars

\* The Oura page in one browser session.
NextOura ==
    \/ OuraOpen
    \/ OuraRerun
    \/ OuraSubmit
SpecOura == Init /\ [][NextOura]_vars

\* sources/linear.py: one call of fetch_paginated().  The loop is a running
\* program: a turn that can be taken is taken.
NextLinear ==
    \/ LpStart
    \/ LpRequest
SpecLinear == Init /\ [][NextLinear]_vars /\ WF_vars(LpRequest)

\* sources/github.py: one call of GitHubPullRequestsSource.fetch().
NextGitHub ==
    \/ PrFetchStart
    \/ PrFetchRequest
SpecGitHub == Init /\ [][NextGitHub]_vars

\* sources/hacker_news.py: one call of HNCommentsSource.transform().
NextTransform ==
    \/ TransformStart
    \/ TransformBatch
    \/ TransformReturn
SpecTransform == Init /\ [][NextTransform]_vars

\* lib/bigquery.py: two scripts whose merge_table calls on one table overlap
\* (two scheduled runs, or a manual run beside a scheduled one).  The
\* warehouse serves one request at a time; the steps of the two calls
\* interleave freely.
ConcurrentRows == {S \in RowLists : \A r \in S : r.id <= 2}
InitConcurrent ==
    /\ \E seeded \in SUBSET {GitHubPRs} :
          /\ datasets = {t[1] : t \in seeded}
          /\ tables = [t \in TableRefs |->
                          IF t \in seeded THEN TableOf(RowsToBag(SeedRows)) ELSE NoTable]
          /\ pre = [p \in Procs |-> tables]
    /\ temp = [p \in Procs |-> NoTable]
    /\ orphans = 0
    /\ pc = [p \in Procs |-> "idle"]
    /\ call = [p \in Procs |-> NoCall]
    /\ exc = [p \in Procs |-> "none"]
    /\ ops = [p \in Procs |-> <<>>]
    /\ faults = [p \in Procs |-> {}]
    /\ result = [p \in Procs |-> NoResult]
    /\ run = 0
    /\ first = {}
    /\ env = EnvVars
    /\ script = [p \in Procs |-> NoScript]
    /\ pool = NoPool
    /\ page = NoPage
    /\ fetch = NoFetch
\* Both scripts have reached bq.merge_table(client, table_id, rows, schema,
\* pk, dataset_id) on the same table, each with its own rows.
CallMergeTableBoth ==
    /\ \A p \in Procs : pc[p] = "idle"
    /\ \E rows \in [Procs -> ConcurrentRows] :
          call' = [p \in Procs |->
                      [kind |-> "merge_table", ref |-> GitHubPRs, raw |-> {},
                       rows |-> rows[p], full |-> FALSE]]
    /\ pc' = [p \in Procs |-> "mt_entry"]
    /\ pre' = [p \in Procs |-> tables]
    /\ UNCHANGED <<warehouse, temp, orphans, exc, ops, faults, result, rerun, outside>>
ConcurrentStep(p) ==
    \/ MtCheckRows(p)
    \/ MtEnsureDataset(p)
    \/ MtGetTable(p)
    \/ MtStage(p)
    \/ MtMerge(p)
    \/ MtCleanup(p)
    \/ LtEnsureDataset(p)
    \/ LtLoad(p)
NextConcurrent ==
    \/ CallMergeTableBoth
    \/ \E p \in Procs : ConcurrentStep(p)
SpecConcurrent == InitConcurrent /\ [][NextConcurrent]_vars

\* ================================================================== claims
Ended(p, kind) == pc[p] = "done" /\ call[p].kind = kind
Returned(p) == result[p].status = "returned"
Issued(p, request) == \E i \in DOMAIN ops[p] : ops[p][i] = request
InputKeys(p) == {r[PrimaryKey] : r \in call[p].rows}
Target(p) == tables[call[p].ref]
TargetBefore(p) == pre[p][call[p].ref]
OthersUntouched(p) == \A t \in TableRefs : t # call[p].ref => tables[t] = pre[p][t]

\* C1: after a merge_table call that returned, on a target that existed, with a
\* non-empty input of unique keys: every input row is in the target and is the
\* only row under its key; every target row whose key is not in the input is
\* present exactly as before, and no other row appeared.
C1_MergeUpserts ==
    \A p \in Procs :
        (/\ Ended(p, "merge_table") /\ Returned(p)
         /\ call[p].rows # {} /\ TargetBefore(p).exists)
        => /\ Target(p).exists
           /\ \A r \in call[p].rows :
                 /\ r \in DOMAIN Target(p).rows
                 /\ \A t \in DOMAIN Target(p).rows :
                       t[PrimaryKey] = r[PrimaryKey] => t = r
           /\ \A t \in DOMAIN Target(p).rows \cup DOMAIN TargetBefore(p).rows :
                 t[PrimaryKey] \notin InputKeys(p)
                 => Count(Target(p).rows, t) = Count(TargetBefore(p).rows, t)
\* a merge that overwrote one key, inserted another and left a third alone
C1_Witness ==
    \E p \in Procs :
        /\ Ended(p, "merge_table") /\ Returned(p) /\ TargetBefore(p).exists
        /\ \E r \in call[p].rows : \E t \in DOMAIN TargetBefore(p).rows :
              t[PrimaryKey] = r[PrimaryKey] /\ t # r
        /\ \E r \in call[p].rows : r[PrimaryKey] \notin KeysOf(TargetBefore(p).rows)
        /\ \E t \in DOMAIN TargetBefore(p).rows : t[PrimaryKey] \notin InputKeys(p)

\* C3: merge_table with an empty row list returns without error, leaves every
\* table as it was, creates no temp table and issues no warehouse request.
C3_EmptyMergeIsNoOp ==
    \A p \in Procs :
        (Ended(p, "merge_table") /\ call[p].rows = {})
        => /\ Returned(p)
           /\ tables = pre[p]
           /\ ~temp[p].exists
           /\ ops[p] = <<>>
\* an empty merge on an existing, non-empty target
C3_Witness ==
    \E p \in Procs :
        /\ Ended(p, "merge_table") /\ call[p].rows = {}
        /\ Target(p).exists /\ Target(p).rows # NoRows

\* C4: on a missing target, merge_table with a non-empty input stages no temp
\* table and issues no MERGE, and when it returns the warehouse is what
\* load_table leaves for the same rows: the table exists and holds exactly the
\* input rows, the other tables are untouched.
C4_MissingTargetIsFullLoad ==
    \A p \in Procs :
        (/\ pc[p] = "done" /\ call[p].kind \in {"merge_table", "load_table"}
         /\ call[p].rows # {} /\ ~TargetBefore(p).exists)
        => /\ ~Issued(p, "load_temp") /\ ~Issued(p, "merge") /\ ~temp[p].exists
           /\ Returned(p) => /\ Target(p) = TableOf(RowsToBag(call[p].rows))
                             /\ call[p].ref[1] \in datasets
                             /\ OthersUntouched(p)
C4_Witness ==
    \E p \in Procs :
        /\ Ended(p, "merge_table") /\ Returned(p)
        /\ call[p].rows # {} /\ ~TargetBefore(p).exists
        /\ Issued(p, "load")

\* C6: when the MERGE statement of merge_table fails, delete_table on the temp
\* table is the next and last request, and the call raises the MERGE error,
\* also when the delete fails too.
C6_MergeErrorAfterCleanup ==
    \A p \in Procs :
        (Ended(p, "merge_table") /\ "merge" \in faults[p])
        => /\ result[p] = [status |-> "raised", err |-> "merge_error"]
           /\ Len(ops[p]) >= 2
           /\ ops[p][Len(ops[p]) - 1] = "merge"
           /\ ops[p][Len(ops[p])] = "delete_temp"
\* the MERGE failed and so did the delete
C6_Witness ==
    \E p \in Procs :
        /\ Ended(p, "merge_table")
        /\ {"merge", "delete_temp"} \subseteq faults[p]

\* C7: when the MERGE succeeded and the delete of the temp table failed,
\* merge_table returns normally and the target holds the merged result.
C7_CleanupFailureNotRaised ==
    \A p \in Procs :
        (Ended(p, "merge_table") /\ faults[p] = {"delete_temp"})
        => /\ Returned(p)
           /\ Target(p) = TableOf(MergeResult(TargetBefore(p).rows, RowsToBag(call[p].rows)))
           /\ OthersUntouched(p)
C7_Witness ==
    \E p \in Procs :
        /\ Ended(p, "merge_table") /\ faults[p] = {"delete_temp"}
        /\ Target(p) # TargetBefore(p)
        /\ temp[p].exists

\* C8: when staging the rows into the temp table fails, merge_table raises
\* that error, issues no MERGE, and leaves every target table as it was.
C8_StagingFailurePropagates ==
    \A p \in Procs :
        (Ended(p, "merge_table") /\ "load_temp" \in faults[p])
        => /\ result[p] = [status |-> "raised", err |-> "stage_error"]
           /\ ~Issued(p, "merge")
           /\ tables = pre[p]
C8_Witness ==
    \E p \in Procs :
        /\ Ended(p, "merge_table") /\ "load_temp" \in faults[p]
        /\ Target(p).rows # NoRows

\* C2: two incremental runs in a row over the same primary keys, both
\* returning, from any table state: the target then holds, for every key of the
\* runs, exactly one row, and it is the second run's row.
C2_SecondRunWins ==
    \A p \in Procs :
        (run = 2 /\ Ended(p, "run_sync") /\ Returned(p))
        => /\ InputKeys(p) = {r[PrimaryKey] : r \in first}
           /\ Target(p).exists
           /\ \A r \in call[p].rows :
                 /\ Count(Target(p).rows, r) = 1
                 /\ Matches(r, Target(p).rows) = {r}
\* {id:1, val:a} then {id:1, val:b} on a table that was missing: only the
\* second run's rows are left
C2_Witness ==
    \E p \in Procs :
        /\ run = 2 /\ Ended(p, "run_sync") /\ Returned(p)
        /\ TargetBefore(p) = TableOf(RowsToBag(first))
        /\ \A r \in call[p].rows : r \notin first
        /\ Target(p) = TableOf(RowsToBag(call[p].rows))

\* C5: every call that issued a MERGE from a staged temp table issues a delete
\* of that temp table after it, whether the MERGE succeeded or failed, in
\* merge_table and in the sentiment backfill's load_comments_to_bigquery.
C5_TempDeletedAfterMerge ==
    \A p \in Procs :
        (/\ pc[p] = "done"
         /\ call[p].kind \in {"merge_table", "run_sync", "load_comments"}
         /\ Issued(p, "merge"))
        => ops[p][Len(ops[p])] = "delete_temp"

\* C9: every target table holds at most one row per primary-key value.
C9_UniquePrimaryKeys ==
    \A t \in TableRefs :
        \A r \in DOMAIN tables[t].rows :
            Size(tables[t].rows, Matches(r, tables[t].rows)) = 1

\* C10 as claimed: no step removes a primary key from a target table.
C10_KeysNeverRemoved ==
    [][\A t \in TableRefs : KeysOf(tables[t].rows) \subseteq KeysOf(tables'[t].rows)]_vars
\* C10 as amended: a primary key leaves a target table only in the load step
\* of a full-refresh run on that table; every step of an incremental run
\* keeps the keys that are there.
FullReplaceStep(p, t) == pc[p] = "lt_load" /\ call[p].full /\ call[p].ref = t
C10_KeysKeptByIncrementalRuns ==
    [][\A t \in TableRefs :
          \/ KeysOf(tables[t].rows) \subseteq KeysOf(tables'[t].rows)
          \/ \E p \in Procs : FullReplaceStep(p, t)]_vars
\* an incremental run that kept a key it did not fetch and added a new one
C10_Witness ==
    \E p \in Procs :
        /\ Ended(p, "run_sync") /\ ~call[p].full /\ Returned(p)
        /\ KeysOf(TargetBefore(p).rows) \ InputKeys(p) # {}
        /\ InputKeys(p) \ KeysOf(TargetBefore(p).rows) # {}
        /\ KeysOf(Target(p).rows) = KeysOf(TargetBefore(p).rows) \cup InputKeys(p)

\* ------------------------------------------------------------------ run_sync claims
IsStep(o) == o \in {"fetch", "transform", "load_table", "merge_table"}
StepsOf(p) == SelectSeq(ops[p], IsStep)
AllSteps(p) == <<"fetch", "transform", IF call[p].full THEN "load_table" ELSE "merge_table">>
IsPrefix(s, t) == Len(s) <= Len(t) /\ \A i \in 1..Len(s) : s[i] = t[i]
\* every warehouse request of the call comes after the step that starts the load
LoadAfterTransform(p) ==
    \A i \in DOMAIN ops[p] :
        ~IsStep(ops[p][i]) => \E j \in 1..(i - 1) : ops[p][j] \in {"load_table", "merge_table"}
\* the target holds what the chosen loader makes of the transformed rows
LoadedTransformed(p) ==
    /\ call[p].rows = Transform(call[p].raw)
    /\ IF call[p].full
       THEN Target(p) = TableOf(RowsToBag(Transform(call[p].raw)))
       ELSE \A r \in Transform(call[p].raw) :
               Count(Target(p).rows, r) = 1 /\ Matches(r, Target(p).rows) = {r}

\* C11 as claimed: a run_sync call that returns has run fetch, transform and
\* exactly one load, in this order.
C11_FetchTransformLoad ==
    \A p \in Procs :
        (Ended(p, "run_sync") /\ Returned(p)) => StepsOf(p) = AllSteps(p)
\* C11 as amended: at every point of a run_sync call the steps taken so far
\* are a prefix of fetch, transform, load (load_table when full_refresh, else
\* merge_table), so each runs at most once and in this order, and no warehouse
\* request is made before the load step; a call that returns after fetching
\* records has run all three and loaded exactly the transformed records; a
\* call whose fetch returns nothing returns after fetch alone.
C11_StepsInOrder ==
    \A p \in Procs :
        call[p].kind = "run_sync"
        => /\ IsPrefix(StepsOf(p), AllSteps(p))
           /\ LoadAfterTransform(p)
           /\ (pc[p] = "done" /\ Returned(p))
              => IF call[p].raw = {}
                 THEN ops[p] = <<"fetch">>
                 ELSE StepsOf(p) = AllSteps(p) /\ LoadedTransformed(p)
\* a full refresh that fetched records and replaced a table that held rows
C11_Witness ==
    \E p \in Procs :
        /\ Ended(p, "run_sync") /\ Returned(p) /\ call[p].full
        /\ call[p].raw # {} /\ TargetBefore(p).rows # NoRows
        /\ StepsOf(p) = <<"fetch", "transform", "load_table">>

\* C12: after a run_sync call with full_refresh that returned, the target
\* holds exactly the rows transformed in that run: each of them once, and no
\* other row.
C12_FullSyncReplaces ==
    \A p \in Procs :
        (Ended(p, "run_sync") /\ call[p].full /\ Returned(p))
        => /\ \A r \in DOMAIN Target(p).rows : r \in Transform(call[p].raw)
           /\ \A r \in Transform(call[p].raw) : Count(Target(p).rows, r) = 1

\* C13: a run_sync call in an environment that lacks a credential makes no
\* upstream fetch and no warehouse request, loads nothing, and ends by raising
\* the configuration error.
C13_MissingConfigRaisedFirst ==
    \A p \in Procs :
        (call[p].kind = "run_sync" /\ env # EnvVars)
        => /\ ops[p] = <<>>
           /\ tables = pre[p]
           /\ pc[p] = "done" => result[p] = [status |-> "raised", err |-> "config_error"]

\* ------------------------------------------------------------------ script claims
InStage(p) == call[p].kind = "stage"
StageStatus(p, k) == script[p].status[k]

C15_SourcesOneAfterAnother ==
    \A p \in Procs :
        script[p].name = "sync_github"
        => /\ \A k \in DOMAIN GhStages :
                 (k > 1 /\ StageStatus(p, k) # "pending") => StageStatus(p, k - 1) = "returned"
           /\ Cardinality({k \in DOMAIN GhStages : StageStatus(p, k) = "running"}) <= 1
           /\ pc[p] # "idle" => StageStatus(p, StageOf(p)) = "running"
\* the second stage is merging while the first has loaded its table
C15_Witness ==
    \E p \in Procs :
        /\ script[p].name = "sync_github"
        /\ pc[p] = "mt_merge" /\ call[p].ref = GitHubReviews
        /\ StageStatus(p, 1) = "returned"
        /\ tables[GitHubPRs].rows # NoRows /\ tables[GitHubPRs].rows # RowsToBag(SeedRows)

\* C16 as claimed: when a stage of a script has failed, the tables of the
\* other stages are as they were before the failing stage, and by the end of
\* the script every other stage has been synced.
C16_FailureAbortsOnlyThatSource ==
    \A p \in Procs :
        script[p].name = "sync_github"
        => /\ (InStage(p) /\ pc[p] = "done" /\ ~Returned(p)) => OthersUntouched(p)
           /\ (script[p].outcome \in {"failed", "complete"}
               /\ \E k \in DOMAIN GhStages : StageStatus(p, k) = "raised")
              => \A j \in DOMAIN GhStages :
                    StageStatus(p, j) # "raised" => StageStatus(p, j) = "returned"
\* C16 as amended: a stage that fails leaves the tables of the other stages as
\* they were and ends the script with a failure; the stages before it have
\* been synced, the stages after it are never started in that run.
C16_FailureAbortsScript ==
    \A p \in Procs :
        script[p].name = "sync_github"
        => /\ (InStage(p) /\ pc[p] = "done" /\ ~Returned(p)) => OthersUntouched(p)
           /\ \A k \in DOMAIN GhStages :
                 StageStatus(p, k) = "raised"
                 => /\ script[p].outcome = "failed"
                    /\ \A j \in DOMAIN GhStages :
                          /\ j < k => StageStatus(p, j) = "returned"
                          /\ j > k => StageStatus(p, j) = "pending"
\* the first stage failed on a warehouse that held rows of both stages
C16_Witness ==
    \E p \in Procs :
        /\ script[p].status = <<"raised", "pending">>
        /\ script[p].outcome = "failed"
        /\ tables[GitHubPRs].exists /\ tables[GitHubReviews].exists

\* C18: a script that reaches its completion message has had no source and
\* no backfill day fail; a failure ends it with a failure outcome.
C18_FailingRunExitsNonZero ==
    \A p \in Procs :
        /\ script[p].outcome = "complete" => ~script[p].failed
        /\ \A k \in DOMAIN script[p].status :
              script[p].status[k] = "raised" => script[p].outcome = "failed"

SentimentFields == {"sentiment_score", "sentiment_label", "sentiment_category"}
SentimentOf(row) == [f \in SentimentFields |-> row[f]]
\* C17: in the parallel sentiment backfill the results are aggregated by
\* index: whatever the order in which the worker tasks complete, once
\* analyze_sentiment_parallel has returned, row i carries the sentiment computed
\* from its own cleaned text (by the answer its own task received), every row
\* has the three sentiment fields and no _clean_text, and the rows are as many
\* and in the same order as they were passed in; the call never raises.
C17_ResultsAggregatedByIndex ==
    /\ pool.state # "raised"
    /\ pool.state = "returned" =>
          /\ Len(pool.rows) = Len(pool.input)
          /\ \A i \in DOMAIN pool.rows :
                /\ DOMAIN pool.rows[i] = {"id", "text"} \cup SentimentFields
                /\ pool.rows[i].id = pool.input[i].id
                /\ pool.rows[i].text = pool.input[i].text
                /\ SentimentOf(pool.rows[i]) =
                      analyze_sentiment_single(clean_html(pool.input[i].text), pool.answer[i])
\* A call returned whose first completed task was not the first row's, on
\* rows that got different sentiments, one of them from markup-laden text.
C17_Witness ==
    /\ pool.state = "returned"
    /\ Len(pool.rows) >= 2
    /\ pool.first # 1
    /\ pool.rows[1].sentiment_label = "NEGATIVE"
    /\ pool.rows[1].text # clean_html(pool.rows[1].text)
    /\ pool.rows[2].sentiment_label \in {"POSITIVE", "ERROR"}

PrivateSet == {PRIVATE_PAGES[i] : i \in DOMAIN PRIVATE_PAGES}
PrivateTitles == {"Linear", "GitHub"}
PrivateLoaders == {"load_issues", "load_pull_requests", "load_reviewer_activity"}
\* C19: the deployment flag hides the private pages.  When DEPLOYMENT_MODE is
\* "public" the navigation has neither Linear Issues nor GitHub PRs, neither
\* can be opened, and the Summary page calls no Linear or GitHub loader and
\* shows nothing of the two sections; for every other value of the flag the
\* navigation has both pages and a Summary page rendered to its end has both
\* sections.
C19_FlagHidesPrivatePages ==
    page.state # "none" =>
       IF page.mode = "public"
       THEN /\ NavPages(page.nav) \cap PrivateSet = {}
            /\ page.name \notin PrivateSet
            /\ page.calls \cap PrivateLoaders = {}
            /\ \A e \in page.shown : e[2] \notin PrivateTitles
       ELSE /\ PrivateSet \subseteq NavPages(page.nav)
            /\ page.name = SUMMARY_PAGE /\ page.state = "done" =>
                  /\ \A t \in PrivateTitles : <<"header", t>> \in page.shown
                  /\ {"load_issues", "load_pull_requests"} \subseteq page.calls
\* A public deployment whose Summary page was rendered to its end, public
\* sections shown.
C19_Witness ==
    /\ page.state = "done"
    /\ page.mode = "public"
    /\ page.name = SUMMARY_PAGE
    /\ <<"metrics", "Oura">> \in page.shown
    /\ <<"warning", "Stock Prices">> \in page.shown

Visible(s) == ~(s.private /\ IS_PUBLIC(page.mode))
Warned(l) ==
    IF page.name = SUMMARY_PAGE
    THEN \E i \in DOMAIN SummarySections :
            /\ \E j \in DOMAIN SummarySections[i].loaders : SummarySections[i].loaders[j] = l
            /\ <<"warning", SummarySections[i].title>> \in page.shown
    ELSE <<"error", page.name>> \in page.shown
IndependentRendered ==
    IF page.name = SUMMARY_PAGE
    THEN \A i \in DOMAIN SummarySections :
            LET s == SummarySections[i] IN
            (Visible(s) /\ \A j \in DOMAIN s.loaders : s.loaders[j] \notin page.failed)
               => <<"metrics", s.title>> \in page.shown
    ELSE \A i \in DOMAIN PageScript(page.name).sections :
            LET s == PageScript(page.name).sections[i] IN
            s.needs \cap page.failed = {} => <<"section", s.title>> \in page.shown
\* C20: a data-load error is caught per page and shown inline, and the rest of
\* the page still renders: once a page run is over, every loader that raised
\* has its warning on the page, and every section of the page that draws on no
\* failed loader is rendered.
C20_LoadErrorsCaughtPerPage ==
    page.state \in {"done", "stopped", "crashed"} =>
       /\ \A l \in page.failed : Warned(l)
       /\ IndependentRendered

\* The tables that hold rows of a source
WrittenTables(source) == {t \in TableRefs : t[2] = source.table_id /\ tables[t].exists}
\* C21: every writer of a source's rows targets one and the same warehouse
\* table: whatever the regular sync and the backfill scripts have run, the
\* rows of the Hacker News comments source are in at most one table, and a
\* call that writes them names the table the source declares.
C21_OneTablePerSource ==
    /\ Cardinality(WrittenTables(HNCommentsSource)) <= 1
    /\ \A p \in Procs :
          (call[p].kind # "none" /\ call[p].ref[2] = HNCommentsSource.table_id)
             => call[p].ref = DeclaredTarget(HNCommentsSource)

\* C23: for any non-empty Oura dataset the default start of the date window,
\* max(min_date, max_date - 30 days), lies within [min_date, max_date], and
\* the rows filtered to [start, max_date] are at least one.
C23_DefaultWindowNotEmpty ==
    page.state = "shown" =>
       LET days == {r.day : r \in page.table} IN
       /\ \A d \in days : d <= page.date_range[2]
       /\ page.date_range[2] \in days
       /\ \E d \in days : d <= page.date_range[1]
       /\ page.date_range[1] <= page.date_range[2]
       /\ page.filtered # {}
       /\ page.filtered \subseteq page.table
\* The page is shown for a dataset of less than 30 days, whose first day is
\* the start of the window and whose rows all pass the filter.
C23_Witness ==
    /\ page.state = "shown"
    /\ Cardinality(page.table) >= 2
    /\ \A r \in page.table : r.day >= page.date_range[2] - 29
    /\ page.date_range[1] \in {r.day : r \in page.table}
    /\ page.filtered = page.table

InDomain(c, domain) == \E i \in DOMAIN domain : domain[i] = c
\* C24: the categorical colour of a row is a member of the chart's declared
\* colour domain and follows the fixed thresholds: steps >= 10000 gives
\* "10k+", 7500 <= steps < 10000 gives "7.5k+", anything else "<7.5k";
\* a temperature deviation > 0.5 gives "elevated", (0, 0.5] "warm",
\* (-0.5, 0] "cool", <= -0.5 "low".
C24_ColorsFollowThresholds ==
    page.state = "shown" =>
       /\ \A c \in page.steps_chart :
             LET x == c.steps IN
             /\ InDomain(c.steps_color, StepsDomain)
             /\ c.steps_color = "10k+" <=> (~x.nan /\ x.v >= 10000)
             /\ c.steps_color = "7.5k+" <=> (~x.nan /\ x.v >= 7500 /\ x.v < 10000)
             /\ c.steps_color = "<7.5k" <=> (x.nan \/ x.v < 7500)
       /\ \A c \in page.temp_chart :
             LET x == c.temperature_deviation IN
             /\ ~x.nan
             /\ InDomain(c.temp_color, TempDomain)
             /\ c.temp_color = "elevated" <=> x.v > 50
             /\ c.temp_color = "warm" <=> (x.v > 0 /\ x.v <= 50)
             /\ c.temp_color = "cool" <=> (x.v > 0 - 50 /\ x.v <= 0)
             /\ c.temp_color = "low" <=> x.v <= 0 - 50
\* Both charts are drawn with every category of their domains in use, the
\* values at the thresholds among them.
C24_Witness ==
    /\ page.state = "shown"
    /\ \A i \in DOMAIN StepsDomain : \E c \in page.steps_chart : c.steps_color = StepsDomain[i]
    /\ \A i \in DOMAIN TempDomain : \E c \in page.temp_chart : c.temp_color = TempDomain[i]
    /\ \E c \in page.steps_chart : c.steps = Float(10000)
    /\ \E c \in page.steps_chart : c.steps = Float(7500)
    /\ \E c \in page.steps_chart : c.steps = NaN
    /\ \E c \in page.temp_chart : c.temperature_deviation = Float(50)
    /\ \E c \in page.temp_chart : c.temperature_deviation = Float(0 - 50)

OuraSession == page.state \in {"opened", "form", "shown"}
OuraGateOn == OuraSession /\ ~NoGate(page.mode, page.password)
OuraDataSeen ==
    page.loaded \/ page.state = "shown" \/ page.filtered # {}
       \/ page.steps_chart # {} \/ page.temp_chart # {}
\* C25: the Oura page password gate.  In public mode with a non-empty
\* OURA_PAGE_PASSWORD, after any sequence of reruns and form submissions, no
\* Oura data is loaded or rendered unless oura_authenticated is true; the flag
\* becomes true only in a run triggered by a submission whose password equals
\* the configured one after stripping; once true it stays true for the
\* session.  In local mode or with an empty password no form is ever shown
\* and every run renders the page.
C25_PasswordGate ==
    /\ [](OuraGateOn => (OuraDataSeen => page.oura_authenticated))
    /\ []((OuraSession /\ ~OuraGateOn) => page.state # "form")
    /\ [][OuraSession =>
             /\ (OuraGateOn /\ ~page.oura_authenticated /\ page'.oura_authenticated)
                   => (page'.submit /\ Strip(page'.typed) = Strip(page.password))
             /\ page.oura_authenticated => page'.oura_authenticated
             /\ ~OuraGateOn => page'.state = "shown"]_vars
\* A public session that was refused a wrong password, then let in by the
\* configured one typed with other surrounding blanks, and has been rerun since.
C25_Witness ==
    /\ page.state = "shown"
    /\ page.mode = "public"
    /\ page.password = <<" ", "s", " ">>
    /\ page.typed = <<"s", " ">>
    /\ page.oura_authenticated
    /\ ~page.submit

\* What a call that returns must return, and what holds while it runs
AllNodes(sizes) == [k \in 1..NodesBefore(sizes, Len(sizes)) |-> k]
C26_Safe ==
    fetch.state \in {"running", "returned", "raised"} /\ fetch.kind = "linear" =>
       /\ \A i \in DOMAIN fetch.requests :
             fetch.requests[i] = IF i = 1 THEN 0
                                 ELSE ServerPage(fetch.sizes, fetch.requests[i - 1]).pageInfo.endCursor
       /\ fetch.state = "returned" =>
             /\ fetch.returned = AllNodes(fetch.sizes)
             /\ Len(fetch.requests) = Len(fetch.sizes)
             /\ \A i \in DOMAIN fetch.requests :
                   ServerPage(fetch.sizes, fetch.requests[i]).pageInfo.hasNextPage
                      <=> i < Len(fetch.requests)
       /\ fetch.state # "returned" => fetch.returned = <<>>
\* C26: Linear pagination fetches all pages.  The first request carries a
\* null cursor and each following one the endCursor of the page before; a
\* call that returns has stopped at the first page whose hasNextPage is false
\* and returns the nodes of all pages in page order, none skipped or
\* repeated; a call that raises (HTTP failure, error payload) returns
\* nothing; and the call ends whenever the server's pages end.
C26_PaginationFetchesAllPages ==
    /\ []C26_Safe
    /\ (fetch.state = "running") ~> (fetch.state \in {"returned", "raised"})
\* A call returned after three pages, an empty one in the middle.
C26_Witness ==
    /\ fetch.state = "returned"
    /\ fetch.kind = "linear"
    /\ Len(fetch.requests) = 3
    /\ fetch.sizes[2] = 0
    /\ Len(fetch.returned) = 4

\* The list endpoint's order: updated_at descending
SortedDesc(held) == \A i, j \in 1..Len(held) : i < j => held[i] >= held[j]
\* The first page of a repository that is empty or holds a pull request
\* updated before the cutoff
StopPage(held, since_date) ==
    Min({pg \in 1..(Len(held) + 1) :
            \/ ListPage(held, pg) = <<>>
            \/ \E k \in 1..Len(ListPage(held, pg)) :
                  ListPage(held, pg)[k].updated_at < since_date})
\* The numbers of the pull requests of repository r in a list
NumbersOf(prs, r) == {prs[k].number : k \in {i \in 1..Len(prs) : prs[i]._repo = REPOS[r]}}
\* The pages asked of repository r so far
PagesAsked(r) == SelectSeq(fetch.requests, LAMBDA q : q[1] = r)
\* C27: GitHub PR fetch with early termination.  Every pull request fetch()
\* has collected is updated at or after since_date; the pages it asks of a
\* repository are page 1, 2, ... and never one past the first page that is
\* empty or holds a pull request older than the cutoff; when fetch() returns
\* it has asked every repository of REPOS, in turn, for exactly the pages up
\* to that one, whatever stopped the repository before; and for a
\* repository listed by updated_at descending, the pull requests returned
\* are all of its pull requests updated at or after since_date.
C27_EarlyTermination ==
    fetch.state \in {"running", "returned", "raised"} /\ fetch.kind = "github" =>
       /\ \A k \in 1..Len(fetch.all_prs) :
             fetch.all_prs[k].updated_at >= fetch.since_date
       /\ \A r \in 1..Len(REPOS) :
             /\ Len(PagesAsked(r)) <= StopPage(fetch.held[r], fetch.since_date)
             /\ PagesAsked(r) = [pg \in 1..Len(PagesAsked(r)) |-> <<r, pg>>]
       /\ fetch.state = "returned" =>
             \A r \in 1..Len(REPOS) :
                /\ Len(PagesAsked(r)) = StopPage(fetch.held[r], fetch.since_date)
                /\ SortedDesc(fetch.held[r]) =>
                      NumbersOf(fetch.all_prs, r)
                         = {k \in 1..Len(fetch.held[r]) :
                               fetch.held[r][k] >= fetch.since_date}
\* fetch() returned: the first repository was cut off on its second page by
\* an old pull request, the second one was read to its first empty page, and
\* pull requests of both are returned, one updated exactly at the cutoff.
C27_Witness ==
    /\ fetch.state = "returned"
    /\ fetch.kind = "github"
    /\ \A r \in 1..Len(REPOS) : SortedDesc(fetch.held[r])
    /\ Len(fetch.held[1]) = 3
    /\ fetch.held[1][3] < fetch.since_date
    /\ fetch.held[1][2] = fetch.since_date
    /\ Len(fetch.held[2]) = 2
    /\ NumbersOf(fetch.all_prs, 2) = {1, 2}
    /\ fetch.requests = <<<<1, 1>>, <<1, 2>>, <<2, 1>>, <<2, 2>>>>

\* C28: analyze_sentiment_batch returns exactly one result per input text,
\* in input order: while the batches are processed, results holds one entry
\* for each text of the batches done, the entry of text k being the one its
\* own text and its own answer from the API give (short and empty texts,
\* failed requests and answers without success included); hence transform
\* returns as many rows as it was given, each with its id and text unchanged
\* and its sentiment assigned, row k carrying the sentiment of text k.
C28_OneResultPerText ==
    fetch.state \in {"running", "returned"} /\ fetch.kind = "transform" =>
       /\ fetch.credentials =>
             /\ Len(fetch.results) = Len(fetch.answers)
             /\ Len(fetch.results) = IF fetch.i < Len(fetch.input) THEN fetch.i
                                     ELSE Len(fetch.input)
             /\ \A k \in 1..Len(fetch.results) :
                   fetch.results[k]
                      = BatchSentiment(clean_html(fetch.input[k].text), fetch.answers[k])
       /\ fetch.state = "returned" =>
             /\ Len(fetch.raw_data) = Len(fetch.input)
             /\ \A k \in 1..Len(fetch.input) :
                   /\ fetch.raw_data[k].id = fetch.input[k].id
                   /\ fetch.raw_data[k].text = fetch.input[k].text
                   /\ fetch.raw_data[k].sentiment # Unset
                   /\ fetch.credentials =>
                         fetch.raw_data[k].sentiment
                            = BatchSentiment(clean_html(fetch.input[k].text),
                                             fetch.answers[k])
\* transform returned three rows from two batches: an empty text, a text
\* whose request failed and a text whose answer had no success, in this order.
C28_Witness ==
    /\ fetch.state = "returned"
    /\ fetch.kind = "transform"
    /\ fetch.credentials
    /\ Len(fetch.raw_data) = 3
    /\ fetch.input[1].text = <<>>
    /\ fetch.raw_data[1].sentiment.sentiment_label = "NEUTRAL"
    /\ fetch.raw_data[2].sentiment.sentiment_label = "ERROR"
    /\ fetch.raw_data[3].sentiment.sentiment_label = "UNKNOWN"

\* What one merge_table call alone makes of a target table
AloneMerge(T, rows) ==
    IF rows = {} THEN T
    ELSE IF ~T.exists THEN TableOf(RowsToBag(rows))
    ELSE TableOf(MergeResult(T.rows, RowsToBag(rows)))
\* The target after the two calls run one after the other, p first
OneAfterTheOther(p, q) ==
    AloneMerge(AloneMerge(pre[p][call[p].ref], call[p].rows), call[q].rows)
BothMerged ==
    \A p \in Procs : Ended(p, "merge_table") /\ Returned(p) /\ faults[p] = {}
\* C29: two merge_table calls running concurrently on the same target table,
\* each with unique-key input, from any starting state of the target, a
\* missing table included, are serializable: when both have returned, the
\* target holds what the two calls leave when run one after the other in one
\* of the two orders; and a call that has staged its rows finds exactly its
\* own rows in its temp table, whatever the other call has done.
C29_ConcurrentMergesSerializable ==
    /\ BothMerged =>
          tables[GitHubPRs] \in {OneAfterTheOther("A", "B"), OneAfterTheOther("B", "A")}
    /\ \A p \in Procs :
          pc[p] = "mt_merge" /\ faults[p] = {} =>
             temp[p] = TableOf(RowsToBag(call[p].rows))

\* C30: merge_table leaves no temp table behind on any exit path: whenever a
\* call has returned or raised, a staging load that failed included, either
\* no temp table of the call exists or the call has issued a delete of it.
C30_NoTempLeftBehind ==
    \A p \in Procs :
        Ended(p, "merge_table") /\ temp[p].exists => Issued(p, "delete_temp")

====
